---- MODULE Spec2Model ----
(***************************************************************************)
(* Model of the multi-backend database adapter layer                       *)
(* (src-tauri/src/adapter.rs) and of the commands that drive it            *)
(* (src-tauri/src/commands.rs).                                            *)
(*                                                                         *)
(* Spec      : the ConnectionManager registry under concurrent callers.    *)
(* SpecAuto  : auto_connect_project_connections fanning connects out to    *)
(*             worker threads over the same registry.                      *)
(* SpecSqlite: SqliteAdapter's operations on one connection behind a mutex, *)
(*             called by concurrent callers.                               *)
(* SpecOps   : the capability operations of the four adapters against a    *)
(*             backend that answers, fails or stays silent past a timeout. *)
(* SpecRuntime : the shared tokio runtime (src-tauri/src/lib.rs) that the  *)
(*             callers block on, with its worker threads scheduled fairly. *)
(* SpecCommands: the connect_database command over the stored connections. *)
(* SpecPoison : the registry when a teardown can panic under the lock.     *)
(* SpecAutoRace: auto_connect racing with another caller's connect.        *)
(* SpecLifecycle: connect, disconnect and remove commands over the store   *)
(*             (src-tauri/src/db.rs) and the registry.                     *)
(* SpecSchemaCache: the get_schema command and its cache in the settings.  *)
(* SpecCsv   : import_csv's parsing of a CSV text into a table.            *)
(* SpecLocks : the registry lock, the SQLite mutex and the store mutex     *)
(*             taken by concurrent callers, with locks scheduled fairly.   *)
(***************************************************************************)
EXTENDS Integers, Sequences, FiniteSets, TLC

(***************************************************************************)
(* Bounds of the model.                                                    *)
(***************************************************************************)
NumCallers == 2
MaxConns == 2
MaxAdapters == 2
NumRtWorkers == 2
MaxAbandoned == 1

Callers == 1..NumCallers
ConnIds == 1..MaxConns
Main == 0
Workers == {100 + i : i \in 1..MaxConns}
Threads == Callers \cup {Main} \cup Workers
RtWorkers == {200 + i : i \in 1..NumRtWorkers}
Parked == [state |-> "parked", for |-> -1, event |-> "none"]
RedisKeyNames == {<<"k">>}
NoThread == -1

(***************************************************************************)
(* adapter.rs: DatabaseKind, AppError, adapters as heap objects.           *)
(***************************************************************************)
DatabaseKind == {"PostgreSQL", "MySQL", "SQLite", "Redis"}

\* Text that the code inspects character by character is a sequence of characters.
UpperChars == <<"A", "B", "C", "D", "E", "F", "G", "H", "I", "J", "K", "L", "M",
                "N", "O", "P", "Q", "R", "S", "T", "U", "V", "W", "X", "Y", "Z">>
LowerChars == <<"a", "b", "c", "d", "e", "f", "g", "h", "i", "j", "k", "l", "m",
                "n", "o", "p", "q", "r", "s", "t", "u", "v", "w", "x", "y", "z">>

to_lowercase_char(c) ==
    IF \E i \in DOMAIN UpperChars : UpperChars[i] = c
    THEN LowerChars[CHOOSE i \in DOMAIN UpperChars : UpperChars[i] = c]
    ELSE c

to_lowercase(s) == [i \in DOMAIN s |-> to_lowercase_char(s[i])]

from_str_or_default(s) ==
    LET l == to_lowercase(s) IN
    CASE l \in {<<"p","o","s","t","g","r","e","s","q","l">>,
                <<"p","o","s","t","g","r","e","s">>, <<"p","g">>} -> "PostgreSQL"
      [] l \in {<<"m","y","s","q","l">>, <<"m","a","r","i","a","d","b">>} -> "MySQL"
      [] l = <<"r","e","d","i","s">> -> "Redis"
      [] OTHER -> "SQLite"

\* DatabaseKind::from_str_loose; "none" stands for Option::None
from_str_loose(s) ==
    LET l == to_lowercase(s) IN
    CASE l \in {<<"p","o","s","t","g","r","e","s","q","l">>,
                <<"p","o","s","t","g","r","e","s">>, <<"p","g">>} -> "PostgreSQL"
      [] l \in {<<"m","y","s","q","l">>, <<"m","a","r","i","a","d","b">>} -> "MySQL"
      [] l \in {<<"s","q","l","i","t","e">>, <<"s","q","l","i","t","e","3">>} -> "SQLite"
      [] l = <<"r","e","d","i","s">> -> "Redis"
      [] OTHER -> "none"

NoError == [variant |-> "none", msg |-> <<>>]
NotFound(msg) == [variant |-> "NotFound", msg |-> msg]
ConnectionFailed(msg) == [variant |-> "ConnectionFailed", msg |-> msg]
QueryError(msg) == [variant |-> "QueryError", msg |-> msg]
DatabaseError(msg) == [variant |-> "DatabaseError", msg |-> msg]

\* messages are kept as the sequence of pieces the code formats them from
ConnectTimedOutMsg == <<"Connection", "timed out">>
PoisonedMsg == <<"Connection store lock poisoned">>
OperationTimedOutMsg == <<"Operation", "timed out">>
DriverMsg == <<"driver", "e.to_string()">>

NoAdapter == [serial |-> 0, kind |-> "none"]
NewAdapter(n, k) == [serial |-> n, kind |-> k]

Ok(v) == [ok |-> TRUE, val |-> v, err |-> NoError]
Err(e) == [ok |-> FALSE, val |-> "none", err |-> e]
NoRet == [thread |-> NoThread, op |-> "none", id |-> 0, res |-> Ok("none")]
NoCall == [op |-> "none", id |-> 0, kind |-> "none", adapter |-> NoAdapter]
NoAuto == [idx |-> 0, already |-> <<>>, to_connect |-> <<>>]
NoCache == [state |-> "absent", schema |-> <<>>]
NoSettings == [id \in ConnIds |-> NoCache]

VARIABLES
    connections,   \* ConnectionManager.connections: set of <<id, adapter>> entries
    rwWriter,      \* thread holding the RwLock write guard, or NoThread
    rwReaders,     \* threads holding a RwLock read guard
    rwPoisoned,    \* the RwLock's poison flag: a thread panicked holding the write guard
    nextSerial,    \* allocation counter giving every constructed adapter an identity
    pc,            \* position of every thread
    call,          \* arguments and locals of the call a thread is in
    ret,           \* the return made by the latest step (NoRet when that step returned nothing)
    displaced,     \* the entry HashMap::insert pushed out in the latest step (else NoAdapter)
    store,         \* db.rs connections table: id -> [db_type, password]
    connected,     \* db.rs connections.connected: the ids whose flag is set
    auto,          \* locals of auto_connect_project_connections: idx, already, to_connect
    settings,      \* db.rs settings table, key schema_cache:<id>: id -> cached schema
    dbMutex,       \* Database.conn: the thread holding the Mutex guard, or NoThread
    sqMutex,       \* SqliteAdapter.conn: the thread holding the Mutex guard, or NoThread
    sqTables,      \* the user tables of the SQLite database file behind the adapter
    elapsed,       \* seconds the running tokio::time::timeout has been waiting
    abandoned,     \* backend calls still running whose caller's timeout has elapsed
    rtWorker,      \* what every worker thread of the tokio runtime is doing
    redisDb        \* the Redis database behind the adapter: key -> what it holds

regVars == <<connections, rwWriter, rwReaders, rwPoisoned, nextSerial>>
appVars == <<store, connected, auto, settings, dbMutex>>
adapterVars == <<sqMutex, sqTables, elapsed, abandoned, rtWorker, redisDb>>
vars == <<connections, rwWriter, rwReaders, rwPoisoned, nextSerial, pc, call, ret, displaced,
          store, connected, auto, settings, dbMutex, sqMutex, sqTables, elapsed, abandoned, rtWorker, redisDb>>

(***************************************************************************)
(* std::collections::HashMap as used by the registry.                      *)
(***************************************************************************)
HashMapKeys(m) == {e[1] : e \in m}

HashMapContains(m, k) == k \in HashMapKeys(m)

HashMapGet(m, k) ==
    IF HashMapContains(m, k) THEN (CHOOSE e \in m : e[1] = k)[2] ELSE NoAdapter

HashMapInsertKeepOld(m, k, v) ==
    IF HashMapContains(m, k) THEN m ELSE m \cup {<<k, v>>}

HashMapInsert(m, k, v) == {e \in m : e[1] # k} \cup {<<k, v>>}

HashMapRemove(m, k) == {e \in m : e[1] # k}

(***************************************************************************)
(* std::sync::RwLock guarding the map.                                     *)
(***************************************************************************)
WriteAvailable == rwWriter = NoThread /\ rwReaders = {}

ReadAvailable == rwWriter = NoThread

(***************************************************************************)
(* What the backend can answer to adapter construction and teardown.       *)
(***************************************************************************)
AdapterConnectOutcomes(kind) ==
    IF kind = "SQLite" THEN {"ok", "driver"} ELSE {"ok", "driver", "timeout"}

AdapterConnectError(outcome) ==
    IF outcome = "timeout" THEN ConnectionFailed(ConnectTimedOutMsg)
    ELSE ConnectionFailed(DriverMsg)

AdapterDisconnectOutcomes(kind) ==
    IF kind = "MySQL" THEN {"ok", "driver", "timeout"} ELSE {"ok"}

AdapterDisconnectResult(outcome) ==
    CASE outcome = "ok" -> Ok("unit")
      [] outcome = "timeout" -> Err(ConnectionFailed(OperationTimedOutMsg))
      [] OTHER -> Err(ConnectionFailed(DriverMsg))

T_SQLite == <<"S","Q","L","i","t","e">>

DefaultStore == [id \in ConnIds |-> [db_type |-> T_SQLite, password |-> ""]]

Init ==
    /\ connections = {}
    /\ rwWriter = NoThread
    /\ rwReaders = {}
    /\ rwPoisoned = FALSE
    /\ nextSerial = 1
    /\ pc = [t \in Threads |-> "idle"]
    /\ call = [t \in Threads |-> NoCall]
    /\ ret = NoRet
    /\ displaced = NoAdapter
    /\ store = DefaultStore
    /\ connected = {}
    /\ auto = NoAuto
    /\ settings = NoSettings
    /\ dbMutex = NoThread
    /\ sqMutex = NoThread
    /\ sqTables = {}
    /\ elapsed = 0
    /\ abandoned = 0
    /\ rtWorker = [w \in RtWorkers |-> Parked]
    /\ redisDb = [key \in RedisKeyNames |-> "missing"]

\* conn_manager.connect(&id, &params)? inside connect_database: Ok(()) goes on
\* in the command, an error is the command's own result
InCommand(t) == call[t].op = "connect_database" /\ pc[t] # "connect_database_save"

\* A call returns r.  A worker thread's closure maps the result of connect to
\* Some(id) / None and the thread ends; the value waits in its JoinHandle.
Return(t, r) ==
    /\ pc' = [pc EXCEPT ![t] = IF t \in Workers
                                THEN (IF r.ok THEN "exit_some" ELSE "exit_none")
                                ELSE IF InCommand(t) /\ r.ok
                                     THEN "connect_database_status"
                                     ELSE "idle"]
    /\ call' = [call EXCEPT ![t] = IF t \in Workers \/ (InCommand(t) /\ r.ok)
                                    THEN call[t] ELSE NoCall]
    /\ ret' = IF InCommand(t) /\ r.ok
              THEN NoRet
              ELSE [thread |-> t, op |-> call[t].op, id |-> call[t].id, res |-> r]

(***************************************************************************)
(* ConnectionManager::connect                                              *)
(***************************************************************************)
ConnectCall(t, id, kind) ==
    /\ pc[t] = "idle"
    /\ pc' = [pc EXCEPT ![t] = "connect_construct"]
    /\ call' = [call EXCEPT ![t] = [op |-> "connect", id |-> id, kind |-> kind,
                                    adapter |-> NoAdapter]]
    /\ ret' = NoRet
    /\ displaced' = NoAdapter
    /\ UNCHANGED <<regVars, appVars, adapterVars>>

AdapterConnectDropsOld(t, outcome) ==
    /\ pc[t] = "connect_construct"
    /\ outcome \in AdapterConnectOutcomes(call[t].kind)
    /\ IF outcome = "ok"
       THEN /\ nextSerial <= MaxAdapters
            /\ call' = [call EXCEPT ![t].adapter = NewAdapter(nextSerial, call[t].kind)]
            /\ nextSerial' = nextSerial + 1
            /\ pc' = [pc EXCEPT ![t] = "connect_write"]
            /\ ret' = NoRet
            /\ UNCHANGED connections
       ELSE /\ Return(t, Err(AdapterConnectError(outcome)))
            /\ connections' = HashMapRemove(connections, call[t].id)
            /\ UNCHANGED nextSerial
    /\ displaced' = NoAdapter
    /\ UNCHANGED <<rwWriter, rwReaders, rwPoisoned, appVars, adapterVars>>

\* the match on params.kind: XAdapter::connect(params)?, before any lock is taken
AdapterConnect(t, outcome) ==
    /\ pc[t] = "connect_construct"
    /\ outcome \in AdapterConnectOutcomes(call[t].kind)
    /\ IF outcome = "ok"
       THEN /\ nextSerial <= MaxAdapters
            /\ call' = [call EXCEPT ![t].adapter = NewAdapter(nextSerial, call[t].kind)]
            /\ nextSerial' = nextSerial + 1
            /\ pc' = [pc EXCEPT ![t] = "connect_write"]
            /\ ret' = NoRet
       ELSE /\ Return(t, Err(AdapterConnectError(outcome)))
            /\ UNCHANGED nextSerial
    /\ displaced' = NoAdapter
    /\ UNCHANGED <<connections, rwWriter, rwReaders, rwPoisoned, appVars, adapterVars>>

ConnectWriteOrSkip(t) ==
    /\ pc[t] = "connect_write"
    /\ IF WriteAvailable
       THEN /\ rwWriter' = t
            /\ pc' = [pc EXCEPT ![t] = "connect_insert"]
            /\ ret' = NoRet
            /\ UNCHANGED call
       ELSE /\ Return(t, Ok("unit"))
            /\ UNCHANGED rwWriter
    /\ displaced' = NoAdapter
    /\ UNCHANGED <<connections, rwReaders, rwPoisoned, nextSerial, appVars, adapterVars>>

\* self.connections.write().map_err(|_| ConnectionFailed("Connection store lock poisoned"))?
ConnectWrite(t) ==
    /\ pc[t] = "connect_write"
    /\ WriteAvailable
    /\ IF rwPoisoned
       THEN /\ Return(t, Err(ConnectionFailed(PoisonedMsg)))
            /\ UNCHANGED rwWriter
       ELSE /\ rwWriter' = t
            /\ pc' = [pc EXCEPT ![t] = "connect_insert"]
            /\ ret' = NoRet
            /\ UNCHANGED call
    /\ displaced' = NoAdapter
    /\ UNCHANGED <<connections, rwReaders, rwPoisoned, nextSerial, appVars, adapterVars>>

\* conns.insert(id, adapter); Ok(()) and the guard is dropped
ConnectInsert(t) ==
    /\ pc[t] = "connect_insert"
    /\ connections' = HashMapInsert(connections, call[t].id, call[t].adapter)
    /\ displaced' = HashMapGet(connections, call[t].id)
    /\ rwWriter' = NoThread
    /\ Return(t, Ok("unit"))
    /\ UNCHANGED <<rwReaders, rwPoisoned, nextSerial, appVars, adapterVars>>

(***************************************************************************)
(* ConnectionManager::get                                                  *)
(***************************************************************************)
\* the call blocks in self.connections.read() until no writer holds the lock
GetReadUnwrap(t, id) ==
    /\ pc[t] = "idle"
    /\ ReadAvailable
    /\ IF rwPoisoned
       THEN /\ pc' = [pc EXCEPT ![t] = "panicked"]
            /\ ret' = NoRet
            /\ UNCHANGED <<rwReaders, call>>
       ELSE /\ rwReaders' = rwReaders \cup {t}
            /\ pc' = [pc EXCEPT ![t] = "get_lookup"]
            /\ call' = [call EXCEPT ![t] = [op |-> "get", id |-> id, kind |-> "none",
                                            adapter |-> NoAdapter]]
            /\ ret' = NoRet
    /\ displaced' = NoAdapter
    /\ UNCHANGED <<connections, rwWriter, rwPoisoned, nextSerial, appVars, adapterVars>>

GetRead(t, id) ==
    /\ pc[t] = "idle"
    /\ ReadAvailable
    /\ IF rwPoisoned
       THEN /\ ret' = [thread |-> t, op |-> "get", id |-> id,
                       res |-> Err(ConnectionFailed(PoisonedMsg))]
            /\ UNCHANGED <<rwReaders, pc, call>>
       ELSE /\ rwReaders' = rwReaders \cup {t}
            /\ pc' = [pc EXCEPT ![t] = "get_lookup"]
            /\ call' = [call EXCEPT ![t] = [op |-> "get", id |-> id, kind |-> "none",
                                            adapter |-> NoAdapter]]
            /\ ret' = NoRet
    /\ displaced' = NoAdapter
    /\ UNCHANGED <<connections, rwWriter, rwPoisoned, nextSerial, appVars, adapterVars>>

GetResult(m, id) ==
    IF HashMapContains(m, id)
    THEN Ok(HashMapGet(m, id))
    ELSE Err(NotFound(<<"Connection", ToString(id), "not active">>))

GetLookupTake(t) ==
    /\ pc[t] = "get_lookup"
    /\ rwReaders' = rwReaders \ {t}
    /\ Return(t, GetResult(connections, call[t].id))
    /\ displaced' = NoAdapter
    /\ connections' = HashMapRemove(connections, call[t].id)
    /\ UNCHANGED <<rwWriter, rwPoisoned, nextSerial, appVars, adapterVars>>

\* conns.get(id).cloned().ok_or_else(NotFound) and the guard is dropped
GetLookup(t) ==
    /\ pc[t] = "get_lookup"
    /\ rwReaders' = rwReaders \ {t}
    /\ Return(t, GetResult(connections, call[t].id))
    /\ displaced' = NoAdapter
    /\ UNCHANGED <<connections, rwWriter, rwPoisoned, nextSerial, appVars, adapterVars>>

(***************************************************************************)
(* ConnectionManager::disconnect                                           *)
(***************************************************************************)
DisconnectWriteAmongReaders(t, id) ==
    /\ pc[t] = "idle"
    /\ rwWriter = NoThread
    /\ rwWriter' = t
    /\ pc' = [pc EXCEPT ![t] = "disconnect_remove"]
    /\ call' = [call EXCEPT ![t] = [op |-> "disconnect", id |-> id, kind |-> "none",
                                    adapter |-> NoAdapter]]
    /\ ret' = NoRet
    /\ displaced' = NoAdapter
    /\ UNCHANGED <<connections, rwReaders, rwPoisoned, nextSerial, appVars, adapterVars>>

\* the call blocks in self.connections.write() until the lock is free
DisconnectWrite(t, id) ==
    /\ pc[t] = "idle"
    /\ WriteAvailable
    /\ IF rwPoisoned
       THEN /\ ret' = [thread |-> t, op |-> "disconnect", id |-> id,
                       res |-> Err(ConnectionFailed(PoisonedMsg))]
            /\ UNCHANGED <<rwWriter, pc, call>>
       ELSE /\ rwWriter' = t
            /\ pc' = [pc EXCEPT ![t] = "disconnect_remove"]
            /\ call' = [call EXCEPT ![t] = [op |-> "disconnect", id |-> id,
                                            kind |-> "none", adapter |-> NoAdapter]]
            /\ ret' = NoRet
    /\ displaced' = NoAdapter
    /\ UNCHANGED <<connections, rwReaders, rwPoisoned, nextSerial, appVars, adapterVars>>

DisconnectPeek(t) ==
    /\ pc[t] = "disconnect_remove"
    /\ IF HashMapContains(connections, call[t].id)
       THEN /\ call' = [call EXCEPT ![t].adapter = HashMapGet(connections, call[t].id)]
            /\ pc' = [pc EXCEPT ![t] = "disconnect_adapter"]
            /\ ret' = NoRet
            /\ UNCHANGED rwWriter
       ELSE /\ rwWriter' = NoThread
            /\ Return(t, Ok("unit"))
    /\ displaced' = NoAdapter
    /\ UNCHANGED <<connections, rwReaders, rwPoisoned, nextSerial, appVars, adapterVars>>

\* if let Some(adapter) = conns.remove(id) { ... } else Ok(()) and the guard is dropped
DisconnectRemove(t) ==
    /\ pc[t] = "disconnect_remove"
    /\ connections' = HashMapRemove(connections, call[t].id)
    /\ IF HashMapContains(connections, call[t].id)
       THEN /\ call' = [call EXCEPT ![t].adapter = HashMapGet(connections, call[t].id)]
            /\ pc' = [pc EXCEPT ![t] = "disconnect_adapter"]
            /\ ret' = NoRet
            /\ UNCHANGED rwWriter
       ELSE /\ rwWriter' = NoThread
            /\ Return(t, Ok("unit"))
    /\ displaced' = NoAdapter
    /\ UNCHANGED <<rwReaders, rwPoisoned, nextSerial, appVars, adapterVars>>

\* adapter.disconnect()?; Ok(()) - the write guard is held across the adapter's teardown
AdapterDisconnect(t, outcome) ==
    /\ pc[t] = "disconnect_adapter"
    /\ outcome \in AdapterDisconnectOutcomes(call[t].adapter.kind)
    /\ rwWriter' = NoThread
    /\ Return(t, AdapterDisconnectResult(outcome))
    /\ displaced' = NoAdapter
    /\ UNCHANGED <<connections, rwReaders, rwPoisoned, nextSerial, appVars, adapterVars>>

(***************************************************************************)
(* ConnectionManager::active_ids                                           *)
(***************************************************************************)
\* if let Ok(conns) = self.connections.read() { .. } else { Vec::new() }
ActiveIdsRead(t) ==
    /\ pc[t] = "idle"
    /\ ReadAvailable
    /\ IF rwPoisoned
       THEN /\ ret' = [thread |-> t, op |-> "active_ids", id |-> 0, res |-> Ok({})]
            /\ UNCHANGED <<rwReaders, pc, call>>
       ELSE /\ rwReaders' = rwReaders \cup {t}
            /\ pc' = [pc EXCEPT ![t] = "active_keys"]
            /\ call' = [call EXCEPT ![t] = [op |-> "active_ids", id |-> 0,
                                            kind |-> "none", adapter |-> NoAdapter]]
            /\ ret' = NoRet
    /\ displaced' = NoAdapter
    /\ UNCHANGED <<connections, rwWriter, rwPoisoned, nextSerial, appVars, adapterVars>>

\* conns.keys().cloned().collect() and the guard is dropped
ActiveIdsKeys(t) ==
    /\ pc[t] = "active_keys"
    /\ rwReaders' = rwReaders \ {t}
    /\ Return(t, Ok(HashMapKeys(connections)))
    /\ displaced' = NoAdapter
    /\ UNCHANGED <<connections, rwWriter, rwPoisoned, nextSerial, appVars, adapterVars>>

Next ==
    \/ \E t \in Callers, id \in ConnIds, kind \in DatabaseKind : ConnectCall(t, id, kind)
    \/ \E t \in Callers, o \in {"ok", "driver", "timeout"} : AdapterConnect(t, o)
    \/ \E t \in Callers : ConnectWrite(t)
    \/ \E t \in Callers : ConnectInsert(t)
    \/ \E t \in Callers, id \in ConnIds : GetRead(t, id)
    \/ \E t \in Callers : GetLookup(t)
    \/ \E t \in Callers, id \in ConnIds : DisconnectWrite(t, id)
    \/ \E t \in Callers : DisconnectRemove(t)
    \/ \E t \in Callers, o \in {"ok", "driver", "timeout"} : AdapterDisconnect(t, o)
    \/ \E t \in Callers : ActiveIdsRead(t)
    \/ \E t \in Callers : ActiveIdsKeys(t)

Spec == Init /\ [][Next]_vars

\* adapter.disconnect() panics under the write guard of disconnect (block_on of
\* MySqlAdapter::disconnect): the thread unwinds, the guard is dropped and the
\* lock is left poisoned; the call returns nothing
AdapterDisconnectPanics(t) ==
    /\ pc[t] = "disconnect_adapter"
    /\ call[t].adapter.kind = "MySQL"
    /\ rwWriter' = NoThread
    /\ rwPoisoned' = TRUE
    /\ pc' = [pc EXCEPT ![t] = "panicked"]
    /\ ret' = NoRet
    /\ displaced' = NoAdapter
    /\ UNCHANGED <<connections, rwReaders, nextSerial, call, appVars, adapterVars>>

NextPoison ==
    \/ Next
    \/ \E t \in Callers : AdapterDisconnectPanics(t)

\* the registry when a teardown can panic (SpecPoison)
SpecPoison == Init /\ [][NextPoison]_vars

(***************************************************************************)
(* commands.rs: auto_connect_project_connections.  The calling thread is   *)
(* Main; the connects run on the scoped threads Workers, worker 100+i      *)
(* taking to_connect[i].                                                   *)
(***************************************************************************)
WorkerOf(i) == 100 + i

Range(q) == {q[i] : i \in DOMAIN q}

\* if conn_info.password.is_empty() && conn_info.db_type != "SQLite" { continue; }
SkippedForPassword(c) == c.password = "" /\ c.db_type # T_SQLite

\* db.list_project_connections(&project_id)?
AutoList(outcome) ==
    /\ pc[Main] = "idle"
    /\ outcome \in {"ok", "db_error"}
    /\ IF outcome = "ok"
       THEN /\ pc' = [pc EXCEPT ![Main] = "auto_scan"]
            /\ call' = [call EXCEPT ![Main] = [op |-> "auto_connect", id |-> 0,
                                               kind |-> "none", adapter |-> NoAdapter]]
            /\ auto' = [idx |-> 1, already |-> <<>>, to_connect |-> <<>>]
            /\ ret' = NoRet
       ELSE /\ ret' = [thread |-> Main, op |-> "auto_connect", id |-> 0,
                       res |-> Err(DatabaseError(DriverMsg))]
            /\ UNCHANGED <<pc, call, auto>>
    /\ displaced' = NoAdapter
    /\ UNCHANGED <<regVars, store, settings, dbMutex, connected, adapterVars>>

\* loop head: the password test, then conn_manager.get(&conn_info.id) takes the read lock
AutoScan ==
    /\ pc[Main] = "auto_scan"
    /\ auto.idx <= MaxConns
    /\ IF SkippedForPassword(store[auto.idx])
       THEN /\ auto' = [auto EXCEPT !.idx = @ + 1]
            /\ UNCHANGED <<pc, rwReaders, rwPoisoned>>
       ELSE /\ ReadAvailable
            /\ rwReaders' = rwReaders \cup {Main}
            /\ pc' = [pc EXCEPT ![Main] = "auto_get"]
            /\ UNCHANGED auto
    /\ ret' = NoRet
    /\ displaced' = NoAdapter
    /\ UNCHANGED <<connections, rwWriter, rwPoisoned, nextSerial, call, store, settings, dbMutex, connected, adapterVars>>

\* get(..).is_ok() -> already_connected; from_str_loose None -> continue; else to_connect
AutoGet ==
    /\ pc[Main] = "auto_get"
    /\ rwReaders' = rwReaders \ {Main}
    /\ LET id == auto.idx
           kind == from_str_loose(store[id].db_type)
       IN auto' = [idx |-> auto.idx + 1,
                   already |-> IF GetResult(connections, id).ok
                               THEN Append(auto.already, id) ELSE auto.already,
                   to_connect |-> IF ~GetResult(connections, id).ok /\ kind # "none"
                                  THEN Append(auto.to_connect, [id |-> id, kind |-> kind])
                                  ELSE auto.to_connect]
    /\ pc' = [pc EXCEPT ![Main] = "auto_scan"]
    /\ ret' = NoRet
    /\ displaced' = NoAdapter
    /\ UNCHANGED <<connections, rwWriter, rwPoisoned, nextSerial, call, store, settings, dbMutex, connected, adapterVars>>

\* std::thread::scope: one s.spawn(move || cm.connect(id, params)) per to_connect entry
AutoSpawn ==
    /\ pc[Main] = "auto_scan"
    /\ auto.idx > MaxConns
    /\ pc' = [t \in Threads |->
                IF t = Main THEN "auto_join"
                ELSE IF \E i \in DOMAIN auto.to_connect : t = WorkerOf(i)
                     THEN "connect_construct"
                     ELSE IF t \in Workers THEN "idle" ELSE pc[t]]
    /\ call' = [t \in Threads |->
                IF \E i \in DOMAIN auto.to_connect : t = WorkerOf(i)
                THEN LET i == CHOOSE i \in DOMAIN auto.to_connect : t = WorkerOf(i)
                     IN [op |-> "connect", id |-> auto.to_connect[i].id,
                         kind |-> auto.to_connect[i].kind, adapter |-> NoAdapter]
                ELSE IF t \in Workers THEN NoCall ELSE call[t]]
    /\ ret' = NoRet
    /\ displaced' = NoAdapter
    /\ UNCHANGED <<regVars, appVars, adapterVars>>

\* handles.into_iter().filter_map(|h| h.join().ok().flatten()).collect()
NewlyConnected ==
    LET idxs == [i \in DOMAIN auto.to_connect |-> i]
        ok(i) == pc[WorkerOf(i)] = "exit_some"
        sel == SelectSeq(idxs, ok)
    IN [k \in DOMAIN sel |-> auto.to_connect[sel[k]].id]

AutoJoinFailFast ==
    /\ pc[Main] = "auto_join"
    /\ \A i \in DOMAIN auto.to_connect : pc[WorkerOf(i)] \in {"exit_some", "exit_none"}
    /\ connected' = connected \cup Range(NewlyConnected)
    /\ IF \E i \in DOMAIN auto.to_connect : pc[WorkerOf(i)] = "exit_none"
       THEN Return(Main, Err(ConnectionFailed(DriverMsg)))
       ELSE Return(Main, Ok(auto.already \o NewlyConnected))
    /\ auto' = NoAuto
    /\ displaced' = NoAdapter
    /\ UNCHANGED <<regVars, store, settings, dbMutex, adapterVars>>

\* the scope ends when every worker has been joined; then set_connection_status(id, true)
\* for each newly connected id and Ok(already_connected ++ newly_connected)
AutoJoin ==
    /\ pc[Main] = "auto_join"
    /\ \A i \in DOMAIN auto.to_connect : pc[WorkerOf(i)] \in {"exit_some", "exit_none"}
    /\ connected' = connected \cup Range(NewlyConnected)
    /\ Return(Main, Ok(auto.already \o NewlyConnected))
    /\ auto' = NoAuto
    /\ displaced' = NoAdapter
    /\ UNCHANGED <<regVars, store, settings, dbMutex, adapterVars>>

\* the db_type and password columns the model draws the stored connections from
DbTypes == {T_SQLite, <<"s","q","l","i","t","e">>, <<"P","o","s","t","g","r","e","s">>,
            <<"O","r","a","c","l","e">>}
Passwords == {"", "pw"}

\* serial of the adapter that an earlier connect_database registered for id
SerialIn(R, id) == Cardinality({j \in R : j <= id})

\* the stored connections of the project, some of them connected earlier on
InitAuto ==
    /\ store \in [ConnIds -> [db_type : DbTypes, password : Passwords]]
    /\ \E R \in SUBSET {id \in ConnIds : from_str_loose(store[id].db_type) # "none"} :
          /\ connections = {<<id, NewAdapter(SerialIn(R, id),
                                              from_str_loose(store[id].db_type))>> : id \in R}
          /\ connected = R
          /\ nextSerial = Cardinality(R) + 1
    /\ rwWriter = NoThread
    /\ rwReaders = {}
    /\ rwPoisoned = FALSE
    /\ pc = [t \in Threads |-> "idle"]
    /\ call = [t \in Threads |-> NoCall]
    /\ ret = NoRet
    /\ displaced = NoAdapter
    /\ auto = NoAuto
    /\ settings = NoSettings
    /\ dbMutex = NoThread
    /\ sqMutex = NoThread
    /\ sqTables = {}
    /\ elapsed = 0
    /\ abandoned = 0
    /\ rtWorker = [w \in RtWorkers |-> Parked]
    /\ redisDb = [key \in RedisKeyNames |-> "missing"]

NextAuto ==
    \/ \E o \in {"ok", "db_error"} : AutoList(o)
    \/ AutoScan
    \/ AutoGet
    \/ AutoSpawn
    \/ AutoJoin
    \/ \E w \in Workers, o \in {"ok", "driver", "timeout"} : AdapterConnect(w, o)
    \/ \E w \in Workers : ConnectWrite(w)
    \/ \E w \in Workers : ConnectInsert(w)

SpecAuto == InitAuto /\ [][NextAuto]_vars

\* the thread of a connect_database command that runs while auto-connect does
RacingCaller == CHOOSE t \in Callers : TRUE

\* connect_database up to conn_manager.connect(&id, &params) for a stored connection
RacingConnectCall(id) ==
    /\ from_str_loose(store[id].db_type) # "none"
    /\ ConnectCall(RacingCaller, id, from_str_loose(store[id].db_type))

\* auto-connect and a connect_database command on another thread (SpecAutoRace)
NextAutoRace ==
    \/ NextAuto
    \/ \E id \in ConnIds : RacingConnectCall(id)
    \/ \E o \in {"ok", "driver", "timeout"} : AdapterConnect(RacingCaller, o)
    \/ ConnectWrite(RacingCaller)
    \/ ConnectInsert(RacingCaller)

SpecAutoRace == InitAuto /\ [][NextAutoRace]_vars

(***************************************************************************)
(* commands.rs: connect_database.  A synchronous command, run on the       *)
(* thread Main; the stored connections are the rows of db.rs (SpecCommands).*)
(***************************************************************************)
\* the db_type column of the stored connections
KindTexts == {<<"P","o","s","t","g","r","e","S","Q","L">>,
              <<"p","o","s","t","g","r","e","s">>, <<"P","G">>,
              <<"M","y","S","Q","L">>, <<"M","a","r","i","a","D","B">>,
              <<"s","q","l","i","t","e">>, <<"S","Q","L","i","t","e","3">>,
              <<"R","e","d","i","s">>,
              <<"O","r","a","c","l","e">>, <<>>, <<"s","q","l","i","t","e","4">>,
              <<"p","g"," ">>}

\* the ids a request can name: the stored ones and one that is not stored
RequestIds == 1..(MaxConns + 1)

UnsupportedMsg(db_type) == <<"Unsupported database type:", db_type>>

InitCommands ==
    /\ store \in [ConnIds -> [db_type : KindTexts, password : {""}]]
    /\ connections = {}
    /\ connected = {}
    /\ nextSerial = 1
    /\ rwWriter = NoThread
    /\ rwReaders = {}
    /\ rwPoisoned = FALSE
    /\ pc = [t \in Threads |-> "idle"]
    /\ call = [t \in Threads |-> NoCall]
    /\ ret = NoRet
    /\ displaced = NoAdapter
    /\ auto = NoAuto
    /\ settings = NoSettings
    /\ dbMutex = NoThread
    /\ sqMutex = NoThread
    /\ sqTables = {}
    /\ elapsed = 0
    /\ abandoned = 0
    /\ rtWorker = [w \in RtWorkers |-> Parked]
    /\ redisDb = [key \in RedisKeyNames |-> "missing"]

\* db.list_connections()?, find(|c| c.id == id) and from_str_loose(&conn_info.db_type)
ConnectDatabaseCall(id, password, outcome) ==
    /\ pc[Main] = "idle"
    /\ outcome \in {"ok", "db_error"}
    /\ LET frame == [op |-> "connect_database", id |-> id, kind |-> "none",
                     adapter |-> NoAdapter, password |-> password]
           failed(e) == /\ ret' = [thread |-> Main, op |-> "connect_database",
                                   id |-> id, res |-> Err(e)]
                        /\ UNCHANGED <<pc, call>>
       IN IF outcome = "db_error"
          THEN failed(DatabaseError(DriverMsg))
          ELSE IF id \notin DOMAIN store
          THEN failed(NotFound(<<"Connection", ToString(id), "not found">>))
          ELSE IF from_str_loose(store[id].db_type) = "none"
          THEN failed(ConnectionFailed(UnsupportedMsg(store[id].db_type)))
          ELSE /\ pc' = [pc EXCEPT ![Main] = "connect_construct"]
               /\ call' = [call EXCEPT ![Main] =
                              [frame EXCEPT !.kind = from_str_loose(store[id].db_type)]]
               /\ ret' = NoRet
    /\ displaced' = NoAdapter
    /\ UNCHANGED <<regVars, appVars, adapterVars>>

\* db.set_connection_status(&id, true)?
ConnectDatabaseStatus(outcome) ==
    /\ pc[Main] = "connect_database_status"
    /\ outcome \in {"ok", "db_error"}
    /\ IF outcome = "ok"
       THEN /\ connected' = connected \cup {call[Main].id}
            /\ pc' = [pc EXCEPT ![Main] = "connect_database_save"]
            /\ ret' = NoRet
            /\ UNCHANGED call
       ELSE /\ Return(Main, Err(DatabaseError(DriverMsg)))
            /\ UNCHANGED connected
    /\ displaced' = NoAdapter
    /\ UNCHANGED <<regVars, store, settings, dbMutex, auto, adapterVars>>

\* db.save_connection_credentials(&id, &password, use_ssl)?; Ok(true)
ConnectDatabaseSave(outcome) ==
    /\ pc[Main] = "connect_database_save"
    /\ outcome \in {"ok", "db_error"}
    /\ IF outcome = "ok"
       THEN /\ store' = [store EXCEPT ![call[Main].id].password = call[Main].password]
            /\ Return(Main, Ok("true"))
       ELSE /\ Return(Main, Err(DatabaseError(DriverMsg)))
            /\ UNCHANGED store
    /\ displaced' = NoAdapter
    /\ UNCHANGED <<regVars, connected, settings, dbMutex, auto, adapterVars>>

NextCommands ==
    \/ \E id \in RequestIds, password \in Passwords, o \in {"ok", "db_error"} :
          ConnectDatabaseCall(id, password, o)
    \/ \E o \in {"ok", "driver", "timeout"} : AdapterConnect(Main, o)
    \/ ConnectWrite(Main)
    \/ ConnectInsert(Main)
    \/ \E o \in {"ok", "db_error"} : ConnectDatabaseStatus(o)
    \/ \E o \in {"ok", "db_error"} : ConnectDatabaseSave(o)

SpecCommands == InitCommands /\ [][NextCommands]_vars

\* a command of Main that runs from call to return in one step returns r
CommandReturn(op, id, r) ==
    /\ pc[Main] = "idle"
    /\ ret' = [thread |-> Main, op |-> op, id |-> id, res |-> r]
    /\ displaced' = NoAdapter
    /\ UNCHANGED <<rwWriter, rwReaders, rwPoisoned, nextSerial, pc, call, auto, settings, dbMutex, adapterVars>>

\* disconnect_database: conn_manager.disconnect(&id)?; then
\* db.set_connection_status(&id, false)?; Ok(())
DisconnectDatabase(id, teardown, outcome) ==
    /\ teardown \in AdapterDisconnectOutcomes(HashMapGet(connections, id).kind)
    /\ outcome \in {"ok", "db_error"}
    /\ connections' = HashMapRemove(connections, id)
    /\ connected' = IF teardown = "ok" /\ outcome = "ok" THEN connected \ {id} ELSE connected
    /\ CommandReturn("disconnect_database", id,
                     IF teardown # "ok" THEN AdapterDisconnectResult(teardown)
                     ELSE IF outcome = "ok" THEN Ok("unit")
                     ELSE Err(DatabaseError(DriverMsg)))
    /\ UNCHANGED store

\* remove_connection: db.list_connections()?; for a SQLite record whose file is
\* under csv_databases (csv), let _ = conn_manager.disconnect(&id); then
\* db.remove_connection(&id)
RemoveConnection(id, csv, outcome) ==
    /\ outcome \in {"ok", "db_error"}
    /\ csv \in BOOLEAN
    /\ LET stored == id \in DOMAIN store
           disconnects == outcome = "ok" /\ stored /\ csv /\ store[id].db_type = T_SQLite
       IN /\ csv => (stored /\ store[id].db_type = T_SQLite)
          /\ connections' = IF disconnects THEN HashMapRemove(connections, id)
                            ELSE connections
          /\ store' = IF outcome = "ok" /\ stored
                      THEN [i \in DOMAIN store \ {id} |-> store[i]] ELSE store
          /\ connected' = IF outcome = "ok" THEN connected \ {id} ELSE connected
          /\ CommandReturn("remove_connection", id,
                CASE outcome = "db_error" -> Err(DatabaseError(DriverMsg))
                  [] ~stored -> Err(NotFound(<<"Connection", ToString(id), "not found">>))
                  [] OTHER -> Ok("unit"))

\* the commands that connect, disconnect and remove stored connections (SpecLifecycle)
NextLifecycle ==
    \/ NextCommands
    \/ \E id \in RequestIds, teardown \in {"ok", "driver", "timeout"},
          o \in {"ok", "db_error"} : DisconnectDatabase(id, teardown, o)
    \/ \E id \in RequestIds, csv \in BOOLEAN, o \in {"ok", "db_error"} :
          RemoveConnection(id, csv, o)

SpecLifecycle == InitCommands /\ [][NextLifecycle]_vars

(***************************************************************************)
(* adapter.rs: SqliteAdapter.  One rusqlite connection behind a            *)
(* std::sync::Mutex, used by concurrent callers (SpecSqlite).              *)
(***************************************************************************)
TableOrder == <<"t", "u">>
TableNames == Range(TableOrder)

SqCall(op, arg) == [op |-> op, arg |-> arg, schema |-> <<>>]

\* sqlite_master WHERE type='table' ... ORDER BY name, one TableSchema per name
SqliteSchema(tables) ==
    LET present(n) == n \in tables
        names == SelectSeq(TableOrder, present)
    IN [k \in DOMAIN names |-> [name |-> names[k]]]

\* schema_tables.into_iter().find(|t| t.name == table)
FindTable(schema, table) ==
    IF \E k \in DOMAIN schema : schema[k].name = table
    THEN <<schema[CHOOSE k \in DOMAIN schema :
                     schema[k].name = table /\ \A j \in 1..(k - 1) : schema[j].name # table]>>
    ELSE <<>>

SqReturn(t, r) ==
    /\ pc' = [pc EXCEPT ![t] = "idle"]
    /\ ret' = [thread |-> t, op |-> call[t].op, id |-> 0, res |-> r]

\* let conn = self.conn.lock().unwrap(); at the top of test_connection, get_schema,
\* execute_query, execute_statement, and inside the get_schema() that
\* get_table_metadata and get_stats call first
SqLock(t, op, arg) ==
    /\ pc[t] = "idle"
    /\ sqMutex = NoThread
    /\ sqMutex' = t
    /\ call' = [call EXCEPT ![t] = SqCall(op, arg)]
    /\ pc' = [pc EXCEPT ![t] =
                 CASE op = "test_connection" -> "sq_test"
                   [] op = "get_schema" -> "sq_schema"
                   [] op = "execute_query" -> "sq_query"
                   [] op = "execute_statement" -> "sq_statement"
                   [] op = "get_table_metadata" -> "sq_meta_schema"
                   [] op = "get_stats" -> "sq_stats_schema"]
    /\ ret' = NoRet
    /\ UNCHANGED <<regVars, appVars, displaced, abandoned, rtWorker, redisDb, sqTables, elapsed>>

SqTestConnection(t) ==
    /\ pc[t] = "sq_test"
    /\ sqMutex' = NoThread
    /\ SqReturn(t, Ok(TRUE))
    /\ UNCHANGED <<regVars, appVars, displaced, abandoned, rtWorker, redisDb, sqTables, elapsed, call>>

SqGetSchema(t) ==
    /\ pc[t] = "sq_schema"
    /\ sqMutex' = NoThread
    /\ SqReturn(t, Ok(SqliteSchema(sqTables)))
    /\ UNCHANGED <<regVars, appVars, displaced, abandoned, rtWorker, redisDb, sqTables, elapsed, call>>

\* a SELECT over the table named by the argument: prepare fails when it is missing
SqExecuteQuery(t) ==
    /\ pc[t] = "sq_query"
    /\ sqMutex' = NoThread
    /\ SqReturn(t, IF call[t].arg \in sqTables
                   THEN Ok([columns |-> <<"id">>, rows |-> <<>>, row_count |-> 0])
                   ELSE Err(QueryError(DriverMsg)))
    /\ UNCHANGED <<regVars, appVars, displaced, abandoned, rtWorker, redisDb, sqTables, elapsed, call>>

\* CREATE TABLE arg when it is missing, DROP TABLE arg when it exists
SqExecuteStatement(t) ==
    /\ pc[t] = "sq_statement"
    /\ sqMutex' = NoThread
    /\ sqTables' = IF call[t].arg \in sqTables
                   THEN sqTables \ {call[t].arg}
                   ELSE sqTables \cup {call[t].arg}
    /\ SqReturn(t, Ok(0))
    /\ UNCHANGED <<regVars, appVars, displaced, abandoned, rtWorker, redisDb, elapsed, call>>

SqMetaSchemaKeepsGuard(t) ==
    /\ pc[t] = "sq_meta_schema"
    /\ UNCHANGED sqMutex
    /\ LET schema == SqliteSchema(sqTables) IN
       IF FindTable(schema, call[t].arg) = <<>>
       THEN /\ SqReturn(t, Err(NotFound(<<"Table", call[t].arg, "not found">>)))
            /\ UNCHANGED call
       ELSE /\ call' = [call EXCEPT ![t].schema = FindTable(schema, call[t].arg)]
            /\ pc' = [pc EXCEPT ![t] = "sq_meta_relock"]
            /\ ret' = NoRet
    /\ UNCHANGED <<regVars, appVars, displaced, abandoned, rtWorker, redisDb, sqTables, elapsed>>

\* get_table_metadata: let schema_tables = self.get_schema()?; the guard taken inside
\* get_schema is dropped when get_schema returns; then find(..).ok_or_else(NotFound)?
SqMetaSchema(t) ==
    /\ pc[t] = "sq_meta_schema"
    /\ sqMutex' = NoThread
    /\ LET schema == SqliteSchema(sqTables) IN
       IF FindTable(schema, call[t].arg) = <<>>
       THEN /\ SqReturn(t, Err(NotFound(<<"Table", call[t].arg, "not found">>)))
            /\ UNCHANGED call
       ELSE /\ call' = [call EXCEPT ![t].schema = FindTable(schema, call[t].arg)]
            /\ pc' = [pc EXCEPT ![t] = "sq_meta_relock"]
            /\ ret' = NoRet
    /\ UNCHANGED <<regVars, appVars, displaced, abandoned, rtWorker, redisDb, sqTables, elapsed>>

\* let conn = self.conn.lock().unwrap(); a second time (get_table_metadata, get_stats)
SqRelock(t) ==
    /\ pc[t] \in {"sq_meta_relock", "sq_stats_relock"}
    /\ sqMutex = NoThread
    /\ sqMutex' = t
    /\ pc' = [pc EXCEPT ![t] = IF pc[t] = "sq_meta_relock" THEN "sq_meta_pragmas"
                                                            ELSE "sq_stats_pragmas"]
    /\ ret' = NoRet
    /\ UNCHANGED <<regVars, appVars, displaced, abandoned, rtWorker, redisDb, sqTables, elapsed, call>>

\* PRAGMA index_list / index_info / foreign_key_list on the table as it is now
SqMetaPragmas(t) ==
    /\ pc[t] = "sq_meta_pragmas"
    /\ sqMutex' = NoThread
    /\ SqReturn(t, Ok([schema |-> call[t].schema[1],
                       indexes |-> <<>>, foreign_keys |-> <<>>,
                       table_present |-> call[t].arg \in sqTables]))
    /\ UNCHANGED <<regVars, appVars, displaced, abandoned, rtWorker, redisDb, sqTables, elapsed, call>>

\* get_stats: let schema = self.get_schema()?; table_count = schema.len()
SqStatsSchema(t) ==
    /\ pc[t] = "sq_stats_schema"
    /\ sqMutex' = NoThread
    /\ call' = [call EXCEPT ![t].schema = SqliteSchema(sqTables)]
    /\ pc' = [pc EXCEPT ![t] = "sq_stats_relock"]
    /\ ret' = NoRet
    /\ UNCHANGED <<regVars, appVars, displaced, abandoned, rtWorker, redisDb, sqTables, elapsed>>

\* PRAGMA page_count, PRAGMA page_size
SqStatsPragmas(t) ==
    /\ pc[t] = "sq_stats_pragmas"
    /\ sqMutex' = NoThread
    /\ SqReturn(t, Ok([table_count |-> Len(call[t].schema),
                       tables_now |-> Cardinality(sqTables)]))
    /\ UNCHANGED <<regVars, appVars, displaced, abandoned, rtWorker, redisDb, sqTables, elapsed, call>>

SqOps == {"test_connection", "get_schema", "execute_query", "execute_statement",
          "get_table_metadata", "get_stats"}

NextSqlite ==
    \/ \E t \in Callers, op \in SqOps, arg \in TableNames : SqLock(t, op, arg)
    \/ \E t \in Callers : SqTestConnection(t)
    \/ \E t \in Callers : SqGetSchema(t)
    \/ \E t \in Callers : SqExecuteQuery(t)
    \/ \E t \in Callers : SqExecuteStatement(t)
    \/ \E t \in Callers : SqMetaSchema(t)
    \/ \E t \in Callers : SqRelock(t)
    \/ \E t \in Callers : SqMetaPragmas(t)
    \/ \E t \in Callers : SqStatsSchema(t)
    \/ \E t \in Callers : SqStatsPragmas(t)

SpecSqlite == Init /\ [][NextSqlite]_vars

(***************************************************************************)
(* adapter.rs: the capability operations of the four adapters, called by   *)
(* one thread (Main) against a backend that answers, fails or stays silent *)
(* (SpecOps).  Time is counted in seconds.                                 *)
(***************************************************************************)
CONNECT_TIMEOUT == 10
QUERY_TIMEOUT == 30
ScanLimit == 100

MaxCols == 2
MaxRows == 2
MaxKeys == 2

\* serde_json::Value as produced by the adapters
JsonNull == [tag |-> "Null", v |-> "null"]
JsonNumber(n) == [tag |-> "Number", v |-> n]
JsonString(x) == [tag |-> "String", v |-> x]

\* what a driver can hold in one cell of a row
RawCells == <<"null", "int", "text", "bad">>

\* pg_value_to_json: try_get(..).ok().map(..).unwrap_or(Null)
pg_value_to_json(raw) ==
    CASE raw = "int" -> JsonNumber("1")
      [] raw = "text" -> JsonString("text")
      [] OTHER -> JsonNull

\* mysql_value_to_json: NULL, Int, Bytes (utf8 or not)
mysql_value_to_json(raw) ==
    CASE raw = "null" -> JsonNull
      [] raw = "int" -> JsonNumber("1")
      [] raw = "text" -> JsonString("text")
      [] OTHER -> JsonNull

\* sqlite_value_to_json: Null, Integer, Text, Blob
sqlite_value_to_json(raw) ==
    CASE raw = "null" -> JsonNull
      [] raw = "int" -> JsonNumber("1")
      [] raw = "text" -> JsonString("text")
      [] OTHER -> JsonString("<blob 1 bytes>")

QueryResult(columns, rows, row_count) ==
    [columns |-> columns, rows |-> rows, row_count |-> row_count]

\* the answers a relational driver can give to a query: column names, then rows of
\* cells; rusqlite can also fail on a single step of the row iterator
ColumnNames == <<"a", "b", "c", "d">>
StepError == <<"step error">>
DriverRow(ncols, first) ==
    [i \in 1..ncols |-> RawCells[((i + first) % Len(RawCells)) + 1]]
DriverRows(ncols, withStepErrors) ==
    LET one == {DriverRow(ncols, first) : first \in 1..Len(RawCells)}
                  \cup (IF withStepErrors THEN {StepError} ELSE {})
    IN UNION {[1..n -> one] : n \in 0..MaxRows}
DriverResults(withStepErrors) ==
    UNION {{[columns |-> SubSeq(ColumnNames, 1, ncols), rows |-> rows] :
               rows \in DriverRows(ncols, withStepErrors)} : ncols \in 0..MaxCols}

\* PostgresAdapter::execute_query, after prepare and query succeeded
PgQueryResult(d) ==
    LET result_rows == [r \in DOMAIN d.rows |->
                          [i \in DOMAIN d.columns |-> pg_value_to_json(d.rows[r][i])]]
    IN QueryResult(d.columns, result_rows, Len(result_rows))

\* MySqlAdapter::execute_query, after conn.query succeeded
MySqlQueryResult(d) ==
    IF d.rows = <<>>
    THEN QueryResult(<<>>, <<>>, 0)
    ELSE LET rows == [r \in DOMAIN d.rows |->
                        [i \in DOMAIN d.columns |->
                            IF i \in DOMAIN d.rows[r]
                            THEN mysql_value_to_json(d.rows[r][i]) ELSE JsonNull]]
         IN QueryResult(d.columns, rows, Len(rows))

SqliteQueryResultCountsSteps(d) ==
    LET stepped(r) == r # StepError
        kept == SelectSeq(d.rows, stepped)
        rows == [r \in DOMAIN kept |->
                    [i \in DOMAIN d.columns |-> sqlite_value_to_json(kept[r][i])]]
    IN QueryResult(d.columns, rows, Len(d.rows))

\* SqliteAdapter::execute_query, after prepare and query_map succeeded:
\* .filter_map(|r| r.ok()).collect(), row_count = rows.len()
SqliteQueryResult(d) ==
    LET stepped(r) == r # StepError
        kept == SelectSeq(d.rows, stepped)
        rows == [r \in DOMAIN kept |->
                    [i \in DOMAIN d.columns |-> sqlite_value_to_json(kept[r][i])]]
    IN QueryResult(d.columns, rows, Len(rows))

\* str::trim, splitn(2, ' '), to_uppercase over sequences of characters
to_uppercase_char(c) ==
    IF \E i \in DOMAIN LowerChars : LowerChars[i] = c
    THEN UpperChars[CHOOSE i \in DOMAIN LowerChars : LowerChars[i] = c]
    ELSE c

to_uppercase(s) == [i \in DOMAIN s |-> to_uppercase_char(s[i])]

RECURSIVE trim_start(_)
trim_start(s) == IF s # <<>> /\ Head(s) = " " THEN trim_start(Tail(s)) ELSE s

RECURSIVE trim_end(_)
trim_end(s) ==
    IF s # <<>> /\ s[Len(s)] = " " THEN trim_end(SubSeq(s, 1, Len(s) - 1)) ELSE s

trim(s) == trim_end(trim_start(s))

splitn2(s) ==
    IF \E i \in DOMAIN s : s[i] = " "
    THEN LET i == CHOOSE i \in DOMAIN s : s[i] = " " /\ \A j \in 1..(i - 1) : s[j] # " "
         IN <<SubSeq(s, 1, i - 1), SubSeq(s, i + 1, Len(s))>>
    ELSE <<s>>

RedisCmdCaseSensitive(sql) == splitn2(trim(sql))[1]

\* let cmd = parts.first().map(|s| s.to_uppercase()).unwrap_or_default();
RedisCmd(sql) == to_uppercase(splitn2(trim(sql))[1])

\* let arg = parts.get(1).map(|s| s.trim()).unwrap_or("*");
RedisArg(sql) ==
    LET parts == splitn2(trim(sql))
    IN IF Len(parts) >= 2 THEN trim(parts[2]) ELSE <<"*">>

K_KEYS == <<"K","E","Y","S">>
K_SCAN == <<"S","C","A","N">>
K_SELECT == <<"S","E","L","E","C","T">>
K_GET == <<"G","E","T">>
K_SET == <<"S","E","T">>
K_DEL == <<"D","E","L">>
K_DELETE == <<"D","E","L","E","T","E">>

\* the statements the model sends to the key-value adapter
RedisStatements ==
    {<<"K","E","Y","S"," ","*">>, <<"s","c","a","n"," ","u","*">>, <<"S","E","L","E","C","T">>, <<"G","E","T"," ","k">>, <<" ","g","e","t"," "," ","k"," ">>, <<"K","e","y","s">>,
     <<"F","O","O"," ","x">>, <<>>, <<"D","E","L","E","T","E"," ","k">>, <<"S","E","T"," ","k"," ","v">>, <<"d","e","l"," ","k">>}

\* the keys a KEYS command matched: key number k has a type and a ttl
RedisKeyTypes == <<"string", "list", "set", "hash", "zset">>
RedisKeyType(d, k) == RedisKeyTypes[((k + d.shift) % 5) + 1]
RedisKeyValue(d, k) ==
    LET ty == RedisKeyType(d, k) IN
    CASE ty = "string" -> "value"
      [] ty = "list" -> "<list: 1 items>"
      [] ty = "set" -> "<set: 1 members>"
      [] ty = "hash" -> "<hash: 1 fields>"
      [] OTHER -> "<zset>"
RedisKeyTtl(d, k) == IF (k + d.shift) % 2 = 0 THEN JsonNumber("60") ELSE JsonNull

RedisScanAnswers ==
    [nkeys : (0..MaxKeys) \cup {ScanLimit, ScanLimit + 1}, shift : 0..1]

Min(a, b) == IF a <= b THEN a ELSE b

RedisScanResultUncapped(d) ==
    LET rows == [k \in 1..d.nkeys |->
                    << JsonString(<<"key", k>>), JsonString(RedisKeyValue(d, k)),
                       JsonString(RedisKeyType(d, k)), RedisKeyTtl(d, k) >>]
    IN QueryResult(<<"key", "value", "type", "ttl">>, rows, Len(rows))

\* "KEYS" | "SCAN" | "SELECT": for key in keys.iter().take(100) { rows.push(vec![4 cells]) }
RedisScanResult(d) ==
    LET rows == [k \in 1..Min(d.nkeys, ScanLimit) |->
                    << JsonString(<<"key", k>>), JsonString(RedisKeyValue(d, k)),
                       JsonString(RedisKeyType(d, k)), RedisKeyTtl(d, k) >>]
    IN QueryResult(<<"key", "value", "type", "ttl">>, rows, Len(rows))

\* what a key of the database holds: nothing, a UTF-8 string, a string that is not
\* valid UTF-8, or a value of another type
RedisHoldings == {"missing", "string", "binary", "list"}
RedisLookup(db, key) == IF key \in DOMAIN db THEN db[key] ELSE "missing"

\* redis::cmd("GET").arg(arg).query_async(&mut conn).await.ok() with val: Option<String>:
\* the stored string, or None for a nil reply, a WRONGTYPE error, bytes that do not
\* convert to String, or a failed command
RedisGetAnswersFor(db, key) ==
    {"error"} \cup (IF RedisLookup(db, key) = "string" THEN {"value"} ELSE {"nil"})
RedisGetResult(arg, d) ==
    QueryResult(<<"key", "value">>,
                << <<JsonString(arg), IF d = "value" THEN JsonString("value") ELSE JsonNull>> >>,
                1)

\* every async adapter operation is runtime.block_on(timeout(T, body)); get_table_metadata
\* of PostgreSQL and MySQL runs get_schema() and then a second block_on(timeout(..));
\* RedisAdapter::connect awaits two timeouts in a row; SQLite has no timeouts and
\* its get_table_metadata / get_stats run get_schema() and then a second section
NumPhases(kind, op) ==
    CASE op = "connect" -> IF kind = "Redis" THEN 2 ELSE 1
      [] op = "disconnect" -> IF kind = "MySQL" THEN 1 ELSE 0
      [] op = "get_table_metadata" -> IF kind = "Redis" THEN 1 ELSE 2
      [] op = "get_stats" -> IF kind = "SQLite" THEN 2 ELSE 1
      [] OTHER -> 1

\* 0 stands for "no timeout around the call"
PhaseTimeout(kind, op) ==
    IF kind = "SQLite" THEN 0
    ELSE IF op = "connect" THEN CONNECT_TIMEOUT ELSE QUERY_TIMEOUT

\* .map_err(|_| AppError::ConnectionFailed("... timed out".to_string()))
TimeoutError(op) ==
    IF op = "connect" THEN ConnectionFailed(ConnectTimedOutMsg)
    ELSE ConnectionFailed(OperationTimedOutMsg)

\* .map_err(|e| AppError::ConnectionFailed(..)) in connect, test_connection and
\* disconnect, .map_err(|e| AppError::QueryError(e.to_string())) elsewhere
DriverError(op) ==
    IF op \in {"connect", "test_connection", "disconnect"}
    THEN ConnectionFailed(DriverMsg)
    ELSE QueryError(DriverMsg)

\* SqliteAdapter::get_stats reads its pragmas with unwrap_or: that section cannot fail
CanFail(kind, op, phase) == ~(kind = "SQLite" /\ op = "get_stats" /\ phase = 2)

AdapterOps == {"connect", "test_connection", "get_schema", "get_table_metadata",
               "execute_query", "execute_statement", "get_stats", "disconnect"}

SomeSql == <<"S","E","L","E","C","T"," ","1">>

OpArgs(kind, op) ==
    CASE op = "get_table_metadata" -> TableNames \cup {"keys", "x"}
      [] op \in {"execute_query", "execute_statement"} ->
            IF kind = "Redis" THEN RedisStatements ELSE {SomeSql}
      [] OTHER -> {"none"}

\* no error reported by the driver
NoFault == [kind |-> "none", severity |-> "none", message |-> "none",
            detail |-> "none", hint |-> "none", causes |-> <<>>]

OpFrame(kind, op, arg) ==
    [op |-> op, kind |-> kind, arg |-> arg, phase |-> 1, schema |-> <<>>,
     answered |-> FALSE, waited |-> 0, fault |-> NoFault]

OpReturn(r) ==
    /\ pc' = [pc EXCEPT ![Main] = "idle"]
    /\ ret' = [thread |-> Main, op |-> call[Main].op, id |-> 0, res |-> r]
    /\ elapsed' = 0

\* the caller is blocked in block_on and the timeout, if any, has not elapsed
Awaiting(op, phase) ==
    /\ pc[Main] = "awaiting"
    /\ call[Main].op = op
    /\ call[Main].phase = phase
    /\ \/ PhaseTimeout(call[Main].kind, op) = 0
       \/ elapsed < PhaseTimeout(call[Main].kind, op)

\* the next block_on(timeout(..)) / the next timeout(..).await of the same call starts
\* its own clock; waited is the time the caller has been blocked in earlier phases
OpNextPhase ==
    /\ call' = [call EXCEPT ![Main].phase = @ + 1, ![Main].waited = @ + elapsed]
    /\ elapsed' = 0
    /\ ret' = NoRet
    /\ UNCHANGED pc

\* a capability operation (or the adapter's constructor) is called;
\* PostgresAdapter, SqliteAdapter and RedisAdapter::disconnect are just Ok(())
OpCall(kind, op, arg) ==
    /\ pc[Main] = "idle"
    /\ arg \in OpArgs(kind, op)
    /\ elapsed' = 0
    /\ call' = [call EXCEPT ![Main] = OpFrame(kind, op, arg)]
    /\ IF NumPhases(kind, op) = 0
       THEN /\ ret' = [thread |-> Main, op |-> op, id |-> 0, res |-> Ok("unit")]
            /\ UNCHANGED pc
       ELSE /\ ret' = NoRet
            /\ pc' = [pc EXCEPT ![Main] = "awaiting"]
    /\ UNCHANGED <<regVars, appVars, displaced, abandoned, rtWorker, redisDb, sqMutex, sqTables>>

\* a second passes and the backend has not answered
OpTick ==
    /\ pc[Main] = "awaiting"
    /\ elapsed < PhaseTimeout(call[Main].kind, call[Main].op)
    /\ elapsed' = elapsed + 1
    /\ ret' = NoRet
    /\ UNCHANGED <<regVars, appVars, displaced, abandoned, rtWorker, redisDb, sqMutex, sqTables, pc, call>>

OpTimeoutAsDriverError ==
    /\ pc[Main] = "awaiting"
    /\ PhaseTimeout(call[Main].kind, call[Main].op) # 0
    /\ elapsed = PhaseTimeout(call[Main].kind, call[Main].op)
    /\ OpReturn(Err(DriverError(call[Main].op)))
    /\ abandoned' = IF abandoned < MaxAbandoned THEN abandoned + 1 ELSE abandoned
    /\ UNCHANGED <<regVars, appVars, displaced, rtWorker, redisDb, sqMutex, sqTables, call>>

\* tokio::time::timeout returns Elapsed: .map_err(|_| ConnectionFailed("... timed out"))?
OpTimeout ==
    /\ pc[Main] = "awaiting"
    /\ PhaseTimeout(call[Main].kind, call[Main].op) # 0
    /\ elapsed = PhaseTimeout(call[Main].kind, call[Main].op)
    /\ OpReturn(Err(TimeoutError(call[Main].op)))
    /\ abandoned' = IF abandoned < MaxAbandoned THEN abandoned + 1 ELSE abandoned
    /\ UNCHANGED <<regVars, appVars, displaced, rtWorker, redisDb, sqMutex, sqTables, call>>

BackendDeliversAbandoned ==
    /\ abandoned > 0
    /\ abandoned' = abandoned - 1
    /\ IF pc[Main] = "awaiting"
       THEN OpReturn(Ok("late"))
       ELSE /\ ret' = [thread |-> Main, op |-> call[Main].op, id |-> 0, res |-> Ok("late")]
            /\ UNCHANGED <<pc, elapsed>>
    /\ UNCHANGED <<regVars, appVars, displaced, rtWorker, redisDb, sqMutex, sqTables, call>>

\* timeout(..) dropped the future of the call: what the backend still does for it
\* ends without anyone to receive it (the model keeps track of MaxAbandoned such calls)
BackendFinishesAbandoned ==
    /\ abandoned > 0
    /\ abandoned' = abandoned - 1
    /\ ret' = NoRet
    /\ UNCHANGED <<regVars, appVars, displaced, rtWorker, redisDb, sqMutex, sqTables, call, pc, elapsed>>

\* the driver reports an error before the timeout: .map_err(..)?
OpDriverError ==
    /\ Awaiting(call[Main].op, call[Main].phase)
    /\ call[Main].kind # "PostgreSQL"
    /\ CanFail(call[Main].kind, call[Main].op, call[Main].phase)
    /\ OpReturn(Err(DriverError(call[Main].op)))
    /\ UNCHANGED <<regVars, appVars, displaced, abandoned, rtWorker, redisDb, sqMutex, sqTables, call>>

\* the tokio_postgres::Error values the driver reports: a database error with or
\* without detail and hint, and an I/O error with a chain of two causes
PgFaults ==
    {[kind |-> "db error", severity |-> "ERROR", message |-> "duplicate key",
      detail |-> "Key (id)=(1) already exists.", hint |-> "Use another id.",
      causes |-> <<>>],
     [kind |-> "db error", severity |-> "FATAL", message |-> "no such role",
      detail |-> "none", hint |-> "none", causes |-> <<>>],
     [kind |-> "error communicating with the server", severity |-> "none",
      message |-> "none", detail |-> "none", hint |-> "none",
      causes |-> <<"connection reset", "os error 104">>]}

\* Display of tokio_postgres::Error and DbError is the driver's and varies with
\* its version: the kind alone, the kind and the immediate cause, or that with
\* the DETAIL and HINT lines of a database error
PgDisplayForms == {"kind", "cause", "detail"}

DbErrorDisplay(e, form) ==
    <<e.severity, ": ", e.message>>
      \o (IF form = "detail" /\ e.detail # "none" THEN <<"DETAIL: ", e.detail>> ELSE <<>>)
      \o (IF form = "detail" /\ e.hint # "none" THEN <<"HINT: ", e.hint>> ELSE <<>>)

\* std::error::Error::source(e) and on: the displayed causes, outermost first
PgSources(e, form) ==
    IF e.severity # "none" THEN <<DbErrorDisplay(e, form)>>
    ELSE [i \in DOMAIN e.causes |-> <<e.causes[i]>>]

\* e.to_string()
pg_to_string(e, form) ==
    <<e.kind>> \o (IF form = "kind" THEN <<>> ELSE <<": ">> \o PgSources(e, form)[1])

RECURSIVE PushCauses(_, _)
PushCauses(msg, sources) ==
    IF sources = <<>> THEN msg
    ELSE PushCauses(msg \o <<": ">> \o Head(sources), Tail(sources))

pg_error_message(e, form) ==
    IF e.severity # "none"
    THEN <<e.severity, ": ", e.message>>
           \o (IF e.detail # "none" THEN <<" - ", e.detail>> ELSE <<>>)
           \o (IF e.hint # "none" THEN <<" (hint: ", e.hint, ")">> ELSE <<>>)
    ELSE PushCauses(pg_to_string(e, form), PgSources(e, form))

\* PostgresAdapter: .map_err(|e| ConnectionFailed(pg_error_message(&e))) in connect,
\* ConnectionFailed(e.to_string()) in test_connection, QueryError(e.to_string()) elsewhere
PgDriverError(op, e, form) ==
    CASE op = "connect" -> ConnectionFailed(pg_error_message(e, form))
      [] op = "test_connection" -> ConnectionFailed(pg_to_string(e, form))
      [] OTHER -> QueryError(pg_to_string(e, form))

\* the PostgreSQL driver reports an error before the timeout
OpPgDriverError ==
    /\ Awaiting(call[Main].op, call[Main].phase)
    /\ call[Main].kind = "PostgreSQL"
    /\ \E e \in PgFaults, form \in PgDisplayForms :
          /\ call' = [call EXCEPT ![Main].fault = e]
          /\ OpReturn(Err(PgDriverError(call[Main].op, e, form)))
    /\ UNCHANGED <<regVars, appVars, displaced, abandoned, rtWorker, redisDb, sqMutex, sqTables>>

opFrameVars == <<regVars, appVars, displaced, sqMutex, sqTables, abandoned, rtWorker, redisDb>>

\* XAdapter::connect: the handshake (and, for Redis, then the PING) succeeded
ConnectDone ==
    /\ Awaiting("connect", call[Main].phase)
    /\ IF call[Main].phase < NumPhases(call[Main].kind, "connect")
       THEN OpNextPhase
       ELSE OpReturn(Ok("adapter")) /\ UNCHANGED call
    /\ UNCHANGED opFrameVars

TestConnectionDone ==
    /\ Awaiting("test_connection", 1)
    /\ OpReturn(Ok(TRUE))
    /\ UNCHANGED <<opFrameVars, call>>

\* get_schema of PostgreSQL, MySQL (ORDER BY table_name) and SQLite (ORDER BY name)
RelationalSchema(tables) == SqliteSchema(tables)

\* RedisAdapter::get_schema: exactly one pseudo-table "keys", row_count = DBSIZE
RedisSchema(dbsize) == << [name |-> "keys", row_count |-> dbsize] >>

\* what get_schema returns for the answer of the backend
SchemaAnswers(kind) == IF kind = "Redis" THEN 0..MaxKeys ELSE SUBSET TableNames
SchemaFor(kind, d) == IF kind = "Redis" THEN RedisSchema(d) ELSE RelationalSchema(d)

GetSchemaDone ==
    /\ Awaiting("get_schema", 1)
    /\ \E d \in SchemaAnswers(call[Main].kind) :
          /\ call' = [call EXCEPT ![Main].schema = SchemaFor(call[Main].kind, d),
                                    ![Main].answered = TRUE]
          /\ OpReturn(Ok(SchemaFor(call[Main].kind, d)))
    /\ UNCHANGED opFrameVars

\* get_table_metadata: let schema_tables = self.get_schema()?;
\*  PostgreSQL, MySQL, SQLite: .find(|t| t.name == table).ok_or_else(NotFound)?
\*  Redis: schema.into_iter().next().unwrap(), whatever _table is
GetTableMetadataSchemaDone ==
    /\ Awaiting("get_table_metadata", 1)
    /\ \E d \in SchemaAnswers(call[Main].kind) :
          LET schema == SchemaFor(call[Main].kind, d)
              found == FindTable(schema, call[Main].arg)
          IN IF call[Main].kind = "Redis"
             THEN /\ call' = [call EXCEPT ![Main].schema = schema, ![Main].answered = TRUE]
                  /\ OpReturn(Ok([schema |-> schema[1], indexes |-> <<>>,
                                  foreign_keys |-> <<>>]))
             ELSE IF found = <<>>
                  THEN /\ call' = [call EXCEPT ![Main].schema = schema, ![Main].answered = TRUE]
                       /\ OpReturn(Err(NotFound(<<"Table", call[Main].arg, "not found">>)))
                  ELSE /\ call' = [call EXCEPT ![Main].schema = schema, ![Main].answered = TRUE,
                                                   ![Main].phase = 2,
                                                   ![Main].waited = @ + elapsed]
                       /\ elapsed' = 0
                       /\ ret' = NoRet
                       /\ UNCHANGED pc
    /\ UNCHANGED opFrameVars

\* the index and foreign-key queries answered: Ok(TableMetadata { schema: table_schema, .. })
GetTableMetadataDone ==
    /\ Awaiting("get_table_metadata", 2)
    /\ OpReturn(Ok([schema |-> FindTable(call[Main].schema, call[Main].arg)[1],
                    indexes |-> <<>>, foreign_keys |-> <<>>]))
    /\ UNCHANGED <<opFrameVars, call>>

QueryAnswers(kind, sql) ==
    IF kind = "Redis"
    THEN (IF RedisCmd(sql) \in {K_KEYS, K_SCAN, K_SELECT} THEN RedisScanAnswers
          ELSE IF RedisCmd(sql) = K_GET THEN RedisGetAnswersFor(redisDb, RedisArg(sql))
          ELSE {"none"})
    ELSE DriverResults(kind = "SQLite")

\* execute_query once the driver has answered d
QueryResultFor(kind, sql, d) ==
    CASE kind = "PostgreSQL" -> Ok(PgQueryResult(d))
      [] kind = "MySQL" -> Ok(MySqlQueryResult(d))
      [] kind = "SQLite" -> Ok(SqliteQueryResult(d))
      [] kind = "Redis" ->
            IF RedisCmd(sql) \in {K_KEYS, K_SCAN, K_SELECT} THEN Ok(RedisScanResult(d))
            ELSE IF RedisCmd(sql) = K_GET THEN Ok(RedisGetResult(RedisArg(sql), d))
            ELSE Err(QueryError(<<"Unsupported Redis command", RedisCmd(sql)>>))

ExecuteQueryDone ==
    /\ Awaiting("execute_query", 1)
    /\ \E d \in QueryAnswers(call[Main].kind, call[Main].arg) :
          OpReturn(QueryResultFor(call[Main].kind, call[Main].arg, d))
    /\ UNCHANGED <<opFrameVars, call>>

\* sql.splitn(3, ' ')
splitn3(s) ==
    LET first == splitn2(s)
    IN IF Len(first) = 1 THEN first ELSE <<first[1]>> \o splitn2(first[2])

\* execute_statement of the key-value adapter: let key = parts.get(1).unwrap_or(&"")
RedisStatementCmd(sql) == to_uppercase(splitn3(trim(sql))[1])
RedisStatementKey(sql) ==
    LET parts == splitn3(trim(sql)) IN IF Len(parts) >= 2 THEN parts[2] ELSE <<>>

\* DEL key: the number of keys removed
RedisDeleted(db, sql) == IF RedisLookup(db, RedisStatementKey(sql)) = "missing" THEN 0 ELSE 1

\* the database after the statement ran: "SET" writes a string, "DEL" | "DELETE" removes
\* the key, nothing else reaches the server (keys outside RedisKeyNames are not tracked)
RedisAfterStatement(db, sql) ==
    LET key == RedisStatementKey(sql) IN
    IF key \notin DOMAIN db THEN db
    ELSE IF RedisStatementCmd(sql) = K_SET THEN [db EXCEPT ![key] = "string"]
    ELSE IF RedisStatementCmd(sql) \in {K_DEL, K_DELETE} THEN [db EXCEPT ![key] = "missing"]
    ELSE db

\* execute_statement: affected rows; Redis: SET -> 1, DEL | DELETE -> deleted, else error
StatementResultFor(kind, sql, n) ==
    IF kind # "Redis" THEN Ok(n)
    ELSE IF RedisStatementCmd(sql) = K_SET THEN Ok(1)
    ELSE IF RedisStatementCmd(sql) \in {K_DEL, K_DELETE} THEN Ok(n)
    ELSE Err(QueryError(<<"Unsupported Redis write command", RedisStatementCmd(sql)>>))

ExecuteStatementDone ==
    /\ Awaiting("execute_statement", 1)
    /\ \E n \in (IF call[Main].kind = "Redis"
                 THEN {RedisDeleted(redisDb, call[Main].arg)} ELSE 0..1) :
          OpReturn(StatementResultFor(call[Main].kind, call[Main].arg, n))
    /\ redisDb' = IF call[Main].kind = "Redis"
                  THEN RedisAfterStatement(redisDb, call[Main].arg) ELSE redisDb
    /\ UNCHANGED <<regVars, appVars, displaced, sqMutex, sqTables, abandoned, rtWorker, call>>

\* another client of the same Redis server writes or removes a key
RedisOtherClient(key, holding) ==
    /\ key \in RedisKeyNames
    /\ holding \in RedisHoldings
    /\ redisDb[key] # holding
    /\ redisDb' = [redisDb EXCEPT ![key] = holding]
    /\ ret' = NoRet
    /\ UNCHANGED <<regVars, appVars, displaced, sqMutex, sqTables, abandoned, rtWorker,
                   call, pc, elapsed>>

\* get_stats; SqliteAdapter::get_stats is get_schema() and then the page pragmas
GetStatsDone ==
    /\ Awaiting("get_stats", call[Main].phase)
    /\ IF call[Main].phase < NumPhases(call[Main].kind, "get_stats")
       THEN OpNextPhase
       ELSE OpReturn(Ok("stats")) /\ UNCHANGED call
    /\ UNCHANGED opFrameVars

\* MySqlAdapter::disconnect: pool.disconnect() finished
DisconnectDone ==
    /\ Awaiting("disconnect", 1)
    /\ OpReturn(Ok("unit"))
    /\ UNCHANGED <<opFrameVars, call>>

NextOps ==
    \/ \E kind \in DatabaseKind, op \in AdapterOps :
          \E arg \in OpArgs(kind, op) : OpCall(kind, op, arg)
    \/ OpTick
    \/ OpTimeout
    \/ BackendFinishesAbandoned
    \/ OpDriverError
    \/ OpPgDriverError
    \/ ConnectDone
    \/ TestConnectionDone
    \/ GetSchemaDone
    \/ GetTableMetadataSchemaDone
    \/ GetTableMetadataDone
    \/ ExecuteQueryDone
    \/ ExecuteStatementDone
    \/ \E key \in RedisKeyNames, holding \in RedisHoldings : RedisOtherClient(key, holding)
    \/ GetStatsDone
    \/ DisconnectDone

SpecOps == Init /\ [][NextOps]_vars

(***************************************************************************)
(* lib.rs: the multi-thread tokio runtime shared by the async adapters.    *)
(* Calling threads block in Handle::block_on, each polling its own future; *)
(* the runtime's worker threads run the I/O and time drivers and the       *)
(* spawned connection tasks (SpecRuntime).                                 *)
(***************************************************************************)
AsyncKinds == {"PostgreSQL", "MySQL", "Redis"}
RtOps == {"execute_statement"}
RtEvents == {"io_done", "io_error", "timer"}

RtFrame(kind, op) == [op |-> op, kind |-> kind, id |-> 0, wake |-> "none"]

Driving(t, e) == [state |-> "driving", for |-> t, event |-> e]

\* self.runtime.block_on(async { timeout(T, ..).await }): the calling thread enters
\* the runtime context through the handle and waits for its own future
RtBlockOn(t, kind, op) ==
    /\ pc[t] = "idle"
    /\ pc' = [pc EXCEPT ![t] = "rt_block_on"]
    /\ call' = [call EXCEPT ![t] = RtFrame(kind, op)]
    /\ ret' = NoRet
    /\ UNCHANGED <<regVars, appVars, displaced, sqMutex, sqTables, elapsed, abandoned, rtWorker, redisDb>>

\* a parked worker thread runs the driver and finds the socket of t's call ready, or
\* failed, or the timer of t's timeout expired
RtDrive(w, t, e) ==
    /\ rtWorker[w] = Parked
    /\ pc[t] = "rt_block_on"
    /\ call[t].wake = "none"
    /\ \A v \in RtWorkers : rtWorker[v].for # t
    /\ rtWorker' = [rtWorker EXCEPT ![w] = Driving(t, e)]
    /\ ret' = NoRet
    /\ UNCHANGED <<regVars, appVars, displaced, sqMutex, sqTables, elapsed, abandoned, redisDb, pc, call>>

RtWakeAndWait(w) ==
    /\ rtWorker[w].state = "driving"
    /\ call' = [call EXCEPT ![rtWorker[w].for].wake = rtWorker[w].event]
    /\ rtWorker' = [rtWorker EXCEPT ![w].state = "blocked"]
    /\ ret' = NoRet
    /\ UNCHANGED <<regVars, appVars, displaced, sqMutex, sqTables, elapsed, abandoned, redisDb, pc>>

\* the worker wakes the waker of t's future and parks again; it waits for no caller
RtWake(w) ==
    /\ rtWorker[w].state = "driving"
    /\ call' = [call EXCEPT ![rtWorker[w].for].wake = rtWorker[w].event]
    /\ rtWorker' = [rtWorker EXCEPT ![w] = Parked]
    /\ ret' = NoRet
    /\ UNCHANGED <<regVars, appVars, displaced, sqMutex, sqTables, elapsed, abandoned, redisDb, pc>>

RtResult(frame) ==
    CASE frame.wake = "io_done" -> Ok("value")
      [] frame.wake = "io_error" -> Err(DriverError(frame.op))
      [] OTHER -> Err(TimeoutError(frame.op))

\* the woken calling thread polls its future to completion and block_on returns
RtReturn(t) ==
    /\ pc[t] = "rt_block_on"
    /\ call[t].wake # "none"
    /\ Return(t, RtResult(call[t]))
    /\ UNCHANGED <<regVars, appVars, displaced, sqMutex, sqTables, elapsed, abandoned, rtWorker, redisDb>>

NextRuntime ==
    \/ \E t \in Callers, kind \in AsyncKinds, op \in RtOps : RtBlockOn(t, kind, op)
    \/ \E w \in RtWorkers, t \in Callers, e \in RtEvents : RtDrive(w, t, e)
    \/ \E w \in RtWorkers : RtWake(w)
    \/ \E t \in Callers : RtReturn(t)

\* the time driver fires every expired timer, a worker that has work finishes it,
\* and a woken thread runs
RuntimeFairness ==
    /\ \A t \in Callers : SF_vars(\E w \in RtWorkers : RtDrive(w, t, "timer"))
    /\ \A w \in RtWorkers : WF_vars(RtWake(w))
    /\ \A t \in Callers : WF_vars(RtReturn(t))

SpecRuntime == Init /\ [][NextRuntime]_vars /\ RuntimeFairness

(***************************************************************************)
(* The three locks together: the registry's RwLock, the SQLite adapter's   *)
(* Mutex and the application store's Mutex, taken by concurrent callers in *)
(* the order the commands take them (SpecLocks).                           *)
(***************************************************************************)
\* the connection, the statement's table and the SqliteAdapter operations the
\* callers contend for
LockedId == CHOOSE id \in ConnIds : TRUE
LockedTable == TableOrder[1]
LockedSqOps == {"execute_statement", "get_table_metadata", "get_stats"}

\* a Database method is called: let conn = self.conn.lock().unwrap(); comes first
DbCall(t, op, id, flag) ==
    /\ pc[t] = "idle"
    /\ pc' = [pc EXCEPT ![t] = "db_lock"]
    /\ call' = [call EXCEPT ![t] = [op |-> op, id |-> id, kind |-> "none",
                                    adapter |-> NoAdapter, flag |-> flag]]
    /\ ret' = NoRet
    /\ displaced' = NoAdapter
    /\ UNCHANGED <<regVars, appVars, adapterVars>>

\* self.conn.lock() returns the guard once no other thread holds it
DbLock(t) ==
    /\ pc[t] = "db_lock"
    /\ dbMutex = NoThread
    /\ dbMutex' = t
    /\ pc' = [pc EXCEPT ![t] = "db_run"]
    /\ ret' = NoRet
    /\ displaced' = NoAdapter
    /\ UNCHANGED <<regVars, store, connected, auto, settings, call, adapterVars>>

\* the statement runs and the guard is dropped at the end of the method:
\* UPDATE connections SET connected = ?1 WHERE id = ?2, or the SELECT of list_connections
DbRun(t) ==
    /\ pc[t] = "db_run"
    /\ dbMutex' = NoThread
    /\ connected' = IF call[t].op = "set_connection_status" /\ call[t].id \in DOMAIN store
                     THEN (IF call[t].flag THEN connected \cup {call[t].id}
                                           ELSE connected \ {call[t].id})
                     ELSE connected
    /\ Return(t, IF call[t].op = "list_connections" THEN Ok(DOMAIN store) ELSE Ok("unit"))
    /\ displaced' = NoAdapter
    /\ UNCHANGED <<regVars, store, auto, settings, adapterVars>>

\* a thread is blocked in write() or lock()
WaitingForLock(t) == pc[t] \in {"connect_write", "sq_meta_relock", "sq_stats_relock", "db_lock"}

\* a lock that is scheduled fairly lets no new reader pass a waiting writer
NoWriterWaiting == \A u \in Callers : pc[u] # "connect_write"

\* the steps of a thread that wait for nothing
Runs(t) ==
    \/ \E o \in {"ok", "driver"} : AdapterConnect(t, o)
    \/ ConnectInsert(t)
    \/ GetLookup(t)
    \/ DisconnectRemove(t)
    \/ AdapterDisconnect(t, "ok")
    \/ SqExecuteStatement(t)
    \/ SqMetaSchema(t) \/ SqMetaPragmas(t) \/ SqStatsSchema(t) \/ SqStatsPragmas(t)
    \/ DbRun(t)

NextLocks ==
    \/ \E t \in Callers : ConnectCall(t, LockedId, "SQLite")
    \/ \E t \in Callers : ConnectWrite(t)
    \/ \E t \in Callers : NoWriterWaiting /\ GetRead(t, LockedId)
    \/ \E t \in Callers : DisconnectWrite(t, LockedId)
    \/ \E t \in Callers, op \in LockedSqOps : SqLock(t, op, LockedTable)
    \/ \E t \in Callers : SqRelock(t)
    \/ \E t \in Callers : DbCall(t, "set_connection_status", LockedId, TRUE)
    \/ \E t \in Callers : DbLock(t)
    \/ \E t \in Callers : Runs(t)

\* fair lock scheduling: a lock that is free again and again is given to every
\* thread waiting for it; a thread that waits for nothing keeps running
LockFairness ==
    \A t \in Callers :
       /\ WF_vars(Runs(t))
       /\ SF_vars(ConnectWrite(t))
       /\ SF_vars(SqRelock(t))
       /\ SF_vars(DbLock(t))

SpecLocks == Init /\ [][NextLocks]_vars /\ LockFairness

(***************************************************************************)
(* commands.rs: the get_schema command and its cache in the settings       *)
(* table, over SQLite adapters of one database file (SpecSchemaCache).     *)
(***************************************************************************)
CachedSchema(schema) == [state |-> "stored", schema |-> schema]

\* a stored value that serde_json::from_str::<Vec<TableSchema>> rejects
Unreadable == [state |-> "unreadable", schema |-> <<>>]

InitSchemaCache ==
    /\ settings \in [ConnIds -> {NoCache, Unreadable}]
    /\ dbMutex = NoThread
    /\ connections = {<<id, NewAdapter(id, "SQLite")>> : id \in ConnIds}
    /\ connected = ConnIds
    /\ nextSerial = MaxConns + 1
    /\ store = DefaultStore
    /\ rwWriter = NoThread
    /\ rwReaders = {}
    /\ rwPoisoned = FALSE
    /\ pc = [t \in Threads |-> "idle"]
    /\ call = [t \in Threads |-> NoCall]
    /\ ret = NoRet
    /\ displaced = NoAdapter
    /\ auto = NoAuto
    /\ sqMutex = NoThread
    /\ sqTables = {}
    /\ elapsed = 0
    /\ abandoned = 0
    /\ rtWorker = [w \in RtWorkers |-> Parked]
    /\ redisDb = [key \in RedisKeyNames |-> "missing"]

GetSchemaCommandAlwaysFresh(id, force, outcome) ==
    /\ pc[Main] = "idle"
    /\ outcome \in {"ok", "read_error", "query_error", "save_error"}
    /\ LET registered == HashMapContains(connections, id)
           fresh == SqliteSchema(sqTables)
       IN /\ (outcome = "read_error") => ~force
          /\ (outcome \in {"query_error", "save_error"}) => registered
          /\ settings' = IF outcome = "ok" /\ registered
                         THEN [settings EXCEPT ![id] = CachedSchema(fresh)] ELSE settings
          /\ ret' = [thread |-> Main, op |-> "get_schema", id |-> id,
                     res |-> CASE outcome = "read_error" -> Err(DatabaseError(DriverMsg))
                               [] outcome = "query_error" -> Err(QueryError(DriverMsg))
                               [] outcome = "save_error" -> Err(DatabaseError(DriverMsg))
                               [] ~registered -> GetResult(connections, id)
                               [] OTHER -> Ok(fresh)]
    /\ call' = [call EXCEPT ![Main] = [op |-> "get_schema", id |-> id, kind |-> "none",
                                       adapter |-> NoAdapter, force |-> force]]
    /\ displaced' = NoAdapter
    /\ UNCHANGED <<regVars, store, connected, auto, dbMutex, pc, adapterVars>>

\* get_schema(connection_id, force_refresh): unless forced, load_cached_schema(..)?
\* and return a readable cached value; otherwise conn_manager.get(..)?,
\* adapter.get_schema()?, save_cached_schema(..)? and Ok(schema)
GetSchemaCommand(id, force, outcome) ==
    /\ pc[Main] = "idle"
    /\ outcome \in {"ok", "read_error", "query_error", "save_error"}
    /\ LET hit == ~force /\ settings[id].state = "stored"
           registered == HashMapContains(connections, id)
           fresh == SqliteSchema(sqTables)
       IN /\ (outcome = "read_error") => ~force
          /\ (outcome \in {"query_error", "save_error"}) => (~hit /\ registered)
          /\ settings' = IF outcome = "ok" /\ ~hit /\ registered
                         THEN [settings EXCEPT ![id] = CachedSchema(fresh)] ELSE settings
          /\ ret' = [thread |-> Main, op |-> "get_schema", id |-> id,
                     res |-> CASE outcome = "read_error" -> Err(DatabaseError(DriverMsg))
                               [] outcome = "query_error" -> Err(QueryError(DriverMsg))
                               [] outcome = "save_error" -> Err(DatabaseError(DriverMsg))
                               [] hit -> Ok(settings[id].schema)
                               [] ~registered -> GetResult(connections, id)
                               [] OTHER -> Ok(fresh)]
    /\ call' = [call EXCEPT ![Main] = [op |-> "get_schema", id |-> id, kind |-> "none",
                                       adapter |-> NoAdapter, force |-> force]]
    /\ displaced' = NoAdapter
    /\ UNCHANGED <<regVars, store, connected, auto, dbMutex, pc, adapterVars>>

\* a CREATE TABLE or DROP TABLE statement changes the tables of the database
SchemaChange(table) ==
    /\ pc[Main] = "idle"
    /\ sqTables' = IF table \in sqTables THEN sqTables \ {table} ELSE sqTables \cup {table}
    /\ ret' = NoRet
    /\ displaced' = NoAdapter
    /\ UNCHANGED <<regVars, appVars, pc, call, sqMutex, elapsed, abandoned, rtWorker, redisDb>>

NextSchemaCache ==
    \/ \E id \in ConnIds, force \in BOOLEAN,
          o \in {"ok", "read_error", "query_error", "save_error"} :
          GetSchemaCommand(id, force, o)
    \/ \E table \in TableNames : SchemaChange(table)
    \/ \E id \in ConnIds : DisconnectDatabase(id, "ok", "ok")

SpecSchemaCache == InitSchemaCache /\ [][NextSchemaCache]_vars

(***************************************************************************)
(* commands.rs: import_csv over the text of a CSV file (SpecCsv).          *)
(***************************************************************************)
MaxCsvLen == 4

CsvChars == {"a", "1", ",", "\n"}

CsvTexts == UNION {[1..n -> CsvChars] : n \in 0..MaxCsvLen}

\* str::split(c): the pieces between the occurrences of c, at least one piece
RECURSIVE split(_, _)
split(s, c) ==
    IF \E i \in DOMAIN s : s[i] = c
    THEN LET i == CHOOSE i \in DOMAIN s : s[i] = c /\ \A j \in 1..(i - 1) : s[j] # c
         IN <<SubSeq(s, 1, i - 1)>> \o split(SubSeq(s, i + 1, Len(s)), c)
    ELSE <<s>>

\* str::lines(): the pieces between line feeds, without a final empty piece
lines(s) ==
    LET pieces == split(s, "\n")
    IN IF pieces[Len(pieces)] = <<>> THEN SubSeq(pieces, 1, Len(pieces) - 1) ELSE pieces

RECURSIVE trim_matches(_, _)
trim_matches(s, c) ==
    IF s # <<>> /\ Head(s) = c THEN trim_matches(Tail(s), c)
    ELSE IF s # <<>> /\ s[Len(s)] = c THEN trim_matches(SubSeq(s, 1, Len(s) - 1), c)
    ELSE s

\* s.trim().trim_matches('"'), as the header names are read
CsvField(s) == trim_matches(trim(s), "\"")

\* a cell: parse::<i64>() gives a number, anything else of the alphabet a string
CsvValue(s) ==
    LET f == CsvField(s)
    IN IF f # <<>> /\ \A i \in DOMAIN f : f[i] = "1" THEN JsonNumber(f) ELSE JsonString(f)

\* the rows of the lines after the header: empty lines are skipped, every other
\* line gives the cells between its commas
CsvRows(ls) ==
    LET kept(l) == trim(l) # <<>>
        body == SelectSeq(ls, kept)
    IN [r \in DOMAIN body |->
          LET cells == split(trim(body[r]), ",")
          IN [i \in DOMAIN cells |-> CsvValue(cells[i])]]

CsvEmptyError == [variant |-> "CsvParseError",
                  msg |-> <<"CSV is empty, no header row found">>]

\* the value import_csv returns when no statement fails
import_csv_result(csv) ==
    IF lines(csv) = <<>> THEN Err(CsvEmptyError)
    ELSE LET header == split(Head(lines(csv)), ",")
             columns == [i \in DOMAIN header |-> CsvField(header[i])]
             rows == CsvRows(Tail(lines(csv)))
         IN Ok(QueryResult(columns, rows, Len(rows)))

\* the command has been called with csv_content, table_name "t" and connection_id,
\* with or without an adapter registered under that id
InitCsv ==
    /\ \E csv \in CsvTexts, conn \in {0, 1} :
          call = [t \in Threads |->
                    IF t = Main
                    THEN [op |-> "import_csv", id |-> conn, kind |-> "none",
                          adapter |-> NoAdapter, csv |-> csv]
                    ELSE NoCall]
    /\ connections \in {{}, {<<1, NewAdapter(1, "SQLite")>>}}
    /\ pc = [t \in Threads |-> IF t = Main THEN "import_csv" ELSE "idle"]
    /\ nextSerial = 2
    /\ rwWriter = NoThread
    /\ rwReaders = {}
    /\ rwPoisoned = FALSE
    /\ ret = NoRet
    /\ displaced = NoAdapter
    /\ store = DefaultStore
    /\ connected = {}
    /\ auto = NoAuto
    /\ settings = NoSettings
    /\ dbMutex = NoThread
    /\ sqMutex = NoThread
    /\ sqTables = {}
    /\ elapsed = 0
    /\ abandoned = 0
    /\ rtWorker = [w \in RtWorkers |-> Parked]
    /\ redisDb = [key \in RedisKeyNames |-> "missing"]

\* import_csv: parse; if connection_id names a registered adapter, CREATE TABLE IF
\* NOT EXISTS and the batched INSERTs, either of which can fail or run out of the
\* 120 seconds; then Ok(QueryResult { columns, rows, row_count })
ImportCsv(outcome) ==
    /\ pc[Main] = "import_csv"
    /\ LET parsed == import_csv_result(call[Main].csv)
           stored == parsed.ok /\ call[Main].id # 0
                       /\ HashMapContains(connections, call[Main].id)
           inserts == stored /\ parsed.val.rows # <<>>
       IN /\ outcome \in {"ok"} \cup (IF stored THEN {"create_error"} ELSE {})
                         \cup (IF inserts THEN {"insert_error", "timed_out"} ELSE {})
          /\ sqTables' = IF stored /\ outcome # "create_error"
                         THEN sqTables \cup {"t"} ELSE sqTables
          /\ ret' = [thread |-> Main, op |-> "import_csv", id |-> call[Main].id,
                     res |-> CASE outcome = "ok" -> parsed
                               [] outcome = "timed_out" ->
                                    Err(QueryError(<<"CSV import timed out after 120 seconds">>))
                               [] OTHER -> Err(QueryError(DriverMsg))]
    /\ pc' = [pc EXCEPT ![Main] = "idle"]
    /\ displaced' = NoAdapter
    /\ UNCHANGED <<regVars, appVars, call, sqMutex, elapsed, abandoned, rtWorker, redisDb>>

NextCsv == \E o \in {"ok", "create_error", "insert_error", "timed_out"} : ImportCsv(o)

SpecCsv == InitCsv /\ [][NextCsv]_vars

(***************************************************************************)
(* Properties of the registry (Spec).                                      *)
(***************************************************************************)
\* the step just taken was thread t returning from op
Returned(op) == ret.op = op

EntriesOf(m, id) == {e \in m : e[1] = id}

\* C1: a connect (also of an identifier that is already registered) that got its
\* adapter constructed returns Ok and leaves exactly one entry for the identifier,
\* holding the adapter this call constructed; the entry it pushed out is no
\* longer in the registry, so a later get(id) cannot return it.
C1_ReconnectReplaces ==
    [][\A t \in Threads :
          (pc[t] = "connect_insert" /\ pc'[t] # "connect_insert")
              => /\ ret'.op = "connect" /\ ret'.thread = t /\ ret'.res.ok
                 /\ EntriesOf(connections', call[t].id) = {<<call[t].id, call[t].adapter>>}
                 /\ GetResult(connections', call[t].id) = Ok(call[t].adapter)
                 /\ \A e \in EntriesOf(connections, call[t].id) : e \notin connections'
      ]_vars

C1_Witness ==
    /\ Returned("connect") /\ ret.res.ok
    /\ displaced # NoAdapter
    /\ HashMapGet(connections, ret.id).serial > displaced.serial

\* C24: a connect whose adapter construction fails returns the construction's
\* error and leaves the registry as it was: an adapter registered under the same
\* identifier stays registered and is what get returns.
C24_FailedConnectKeepsRegistry ==
    [][\A t \in Callers :
          /\ (pc[t] = "idle" /\ pc'[t] = "connect_construct")
                => connections' = connections
          /\ (pc[t] = "connect_construct" /\ pc'[t] = "idle")
                => /\ ret'.thread = t /\ ret'.op = "connect" /\ ~ret'.res.ok
                   /\ ret'.res.err \in {AdapterConnectError(o) :
                                          o \in AdapterConnectOutcomes(call[t].kind) \ {"ok"}}
                   /\ connections' = connections
                   /\ GetResult(connections', call[t].id) = GetResult(connections, call[t].id)
      ]_vars

C24_Witness ==
    /\ Returned("connect") /\ ~ret.res.ok
    /\ rwWriter = NoThread
    /\ GetResult(connections, ret.id).ok

\* C25: disconnect(id) takes the entry out of the registry before it invokes the
\* adapter's disconnect, invokes it once for the entry it took out and not at all
\* when there was none, and when it returns, with Ok or with the teardown's
\* error, id is not registered.
C25_DisconnectRemovesFirst ==
    [][\A t \in Callers :
          /\ (pc[t] = "disconnect_remove" /\ pc'[t] # pc[t])
                => /\ ~HashMapContains(connections', call[t].id)
                   /\ IF HashMapContains(connections, call[t].id)
                      THEN /\ pc'[t] = "disconnect_adapter"
                           /\ <<call[t].id, call'[t].adapter>> \in connections
                           /\ ret' = NoRet
                      ELSE /\ pc'[t] = "idle"
                           /\ ret'.thread = t /\ ret'.op = "disconnect" /\ ret'.res.ok
                           /\ connections' = connections
          /\ (pc[t] = "disconnect_adapter" /\ pc'[t] # pc[t])
                => /\ pc'[t] = "idle"
                   /\ ret'.thread = t /\ ret'.op = "disconnect"
                   /\ ~HashMapContains(connections', call[t].id)
                   /\ connections' = connections
          /\ (pc'[t] = "disconnect_adapter" /\ pc[t] # pc'[t])
                => pc[t] = "disconnect_remove"
      ]_vars

C25_Witness ==
    /\ Returned("disconnect") /\ ~ret.res.ok
    /\ ~HashMapContains(connections, ret.id)
    /\ connections # {}

\* a thread is waiting for the backend: the handshake of a connect, or the
\* teardown of an adapter whose disconnect talks to the server
BackendIo(t) ==
    \/ pc[t] = "connect_construct"
    \/ pc[t] = "disconnect_adapter" /\ call[t].adapter.kind = "MySQL"

\* C26: no thread holds the registry lock, as writer or as reader, while it
\* waits for the backend, so the handshake of a connect and the teardown of a
\* disconnect keep no get or active_ids of another thread waiting.
C26_NoLockAcrossBackendIo ==
    \A t \in Callers : BackendIo(t) => (rwWriter # t /\ t \notin rwReaders)

\* C2: ConnectionManager::disconnect never returns an error.
C2_DisconnectNeverErrs == Returned("disconnect") => ret.res.ok

\* C4: the registry lock is reader-writer exclusive: at most one writer, and no
\* reader inside while a writer is; the map changes only in a step of the thread
\* that holds the write guard, and never while a reader holds the lock.
C4_RwExclusive ==
    /\ [](rwWriter # NoThread => rwReaders = {})
    /\ [][connections' # connections
            => /\ rwWriter # NoThread
               /\ rwReaders = {}
               /\ pc'[rwWriter] # pc[rwWriter]]_vars

C4_Witness ==
    /\ rwWriter # NoThread
    /\ pc[rwWriter] = "disconnect_adapter"
    /\ \E t \in Threads : pc[t] = "connect_write"

C4_WitnessSharedReaders == Cardinality(rwReaders) = 2

\* C5: get returns the adapter registered under id at the moment of the lookup,
\* and NotFound exactly when there is no entry; get and active_ids leave the
\* registry as it is.
C5_GetIsPureLookup ==
    [][\A t \in Threads :
          /\ (pc[t] = "get_lookup" /\ pc'[t] # "get_lookup")
                => /\ connections' = connections
                   /\ ret'.op = "get"
                   /\ IF \E e \in connections : e[1] = call[t].id
                      THEN ret'.res.ok /\ <<call[t].id, ret'.res.val>> \in connections
                      ELSE ~ret'.res.ok /\ ret'.res.err.variant = "NotFound"
          /\ (pc[t] = "active_keys" /\ pc'[t] # "active_keys")
                => /\ connections' = connections
                   /\ ret'.op = "active_ids"
                   /\ ret'.res.val = {e[1] : e \in connections}
          /\ (call'[t].op \in {"get", "active_ids"}) => connections' = connections
      ]_vars

C5_Witness ==
    /\ Returned("get") /\ ret.res.ok
    /\ ret.res.val.serial = 2
    /\ <<ret.id, ret.res.val>> \in connections

C5_WitnessNotFound ==
    /\ Returned("get") /\ ~ret.res.ok
    /\ connections # {}

(***************************************************************************)
(* Properties of the fan-out (SpecAuto).                                   *)
(***************************************************************************)
Spawned == {WorkerOf(i) : i \in DOMAIN auto.to_connect}

AllJoinable == \A w \in Spawned : pc[w] \in {"exit_some", "exit_none"}

\* C3: when the connects running in parallel on distinct identifiers have all
\* finished and each got its adapter constructed, every one of them returned Ok,
\* every identifier is registered with the adapter its call constructed, and the
\* registry holds exactly one entry per constructed adapter (no insert was lost).
C3_ParallelConnectsAllRegistered ==
    (/\ pc[Main] = "auto_join"
     /\ AllJoinable
     /\ \A w \in Spawned : call[w].adapter # NoAdapter)
    => /\ \A w \in Spawned : pc[w] = "exit_some"
       /\ \A w \in Spawned : <<call[w].id, call[w].adapter>> \in connections
       /\ \A w \in Spawned : call[w].id \in HashMapKeys(connections)
       /\ Cardinality(HashMapKeys(connections)) = nextSerial - 1

C3_Witness ==
    /\ pc[Main] = "auto_join"
    /\ Cardinality(Spawned) >= 2
    /\ \A w \in Spawned : pc[w] = "exit_some"
    /\ \A w \in Spawned : call[w].id \in HashMapKeys(connections)

\* C6: auto_connect returns only after every worker has ended; connect failures
\* never make it return Err; it returns the identifiers that passed the password
\* test and are registered (registered before, or connected by a worker); every
\* identifier that was eligible and not registered got its own attempt, and an
\* attempt whose adapter was constructed is registered whatever the others did.
PassedPasswordTest == {id \in ConnIds : ~SkippedForPassword(store[id])}

Eligible == {id \in PassedPasswordTest : from_str_loose(store[id].db_type) # "none"}

C7_MutexHeldThroughout == \A t \in Callers : pc[t] # "idle" => sqMutex = t

(***************************************************************************)
(* Properties of the capability operations (SpecOps).                      *)
(***************************************************************************)
\* C8: get_table_metadata(table) returns NotFound whenever no entry of the
\* get_schema result is named table, and on success returns the get_schema
\* entry whose name is the requested table - for every backend.
C8_MetadataMatchesSchema ==
    (Returned("get_table_metadata") /\ call[Main].answered) =>
        /\ (\A k \in DOMAIN call[Main].schema : call[Main].schema[k].name # call[Main].arg)
              => (~ret.res.ok /\ ret.res.err.variant = "NotFound")
        /\ ret.res.ok
              => /\ ret.res.val.schema.name = call[Main].arg
                 /\ \E k \in DOMAIN call[Main].schema : call[Main].schema[k] = ret.res.val.schema

\* C9: every successful execute_query result has row_count = number of rows and
\* every row as long as the list of column names.
C9_QueryResultShape ==
    (Returned("execute_query") /\ ret.res.ok)
        => /\ ret.res.val.row_count = Len(ret.res.val.rows)
           /\ \A r \in DOMAIN ret.res.val.rows :
                 Len(ret.res.val.rows[r]) = Len(ret.res.val.columns)

C9_Witness ==
    /\ Returned("execute_query") /\ ret.res.ok
    /\ call[Main].kind = "SQLite"
    /\ Len(ret.res.val.columns) = 2
    /\ ret.res.val.row_count = 1

\* the step is one of the calling thread, not one of the backend or of its other clients
CallerMoves == <<pc[Main], call[Main], elapsed>>' # <<pc[Main], call[Main], elapsed>>

\* C10: for the PostgreSQL, MySQL and key-value adapters, a call whose timeout
\* elapses returns ConnectionFailed with a message ending in "timed out".
C10_TimeoutIsConnectionFailed ==
    [][(/\ pc[Main] = "awaiting"
        /\ call[Main].kind \in {"PostgreSQL", "MySQL", "Redis"}
        /\ elapsed = PhaseTimeout(call[Main].kind, call[Main].op)
        /\ CallerMoves)
       => /\ pc'[Main] = "idle"
          /\ ~ret'.res.ok
          /\ ret'.res.err.variant = "ConnectionFailed"
          /\ ret'.res.err.msg[Len(ret'.res.err.msg)] = "timed out"
      ]_vars

C10_Witness ==
    /\ Returned("get_table_metadata")
    /\ call[Main].kind = "PostgreSQL"
    /\ call[Main].phase = 2
    /\ ~ret.res.ok
    /\ ret.res.err = ConnectionFailed(OperationTimedOutMsg)

\* time the caller of the pending operation has been blocked since it called
Blocked == call[Main].waited + elapsed

\* C11: for the PostgreSQL, MySQL and key-value adapters the caller of connect is
\* never blocked longer than CONNECT_TIMEOUT and the caller of any other
\* operation never longer than QUERY_TIMEOUT, operations of several phases included.
C11_TimeoutBoundsBlocking ==
    (pc[Main] = "awaiting" /\ call[Main].kind \in {"PostgreSQL", "MySQL", "Redis"})
        => Blocked <= (IF call[Main].op = "connect" THEN CONNECT_TIMEOUT ELSE QUERY_TIMEOUT)

\* C12: test_connection against a host that does not answer is over, with
\* ConnectionFailed, no later than CONNECT_TIMEOUT after the call started.
C12_TestConnectionWithinConnectTimeout ==
    /\ (pc[Main] = "awaiting" /\ call[Main].op = "test_connection"
           /\ call[Main].kind # "SQLite")
          => Blocked <= CONNECT_TIMEOUT
    /\ (Returned("test_connection") /\ ~ret.res.ok)
          => ret.res.err.variant = "ConnectionFailed"

\* the timeout of the pending call has elapsed
TimeoutElapsed ==
    /\ pc[Main] = "awaiting"
    /\ PhaseTimeout(call[Main].kind, call[Main].op) # 0
    /\ elapsed = PhaseTimeout(call[Main].kind, call[Main].op)

C15_AdapterDisconnectNeverFails ==
    (ret.thread = Main /\ Returned("disconnect") /\ call[Main].kind \in DatabaseKind)
        => ret.res.ok

\* the calling thread is inside op of the key-value adapter and takes a step
RedisStep(op) ==
    /\ pc[Main] = "awaiting"
    /\ call[Main].kind = "Redis"
    /\ call[Main].op = op
    /\ CallerMoves

\* C16: execute_statement of the key-value adapter supports only SET and DEL: a
\* statement with any other leading token is rejected with QueryError (unless the
\* timeout elapses first) and changes no key.
C16_OnlySetAndDel ==
    [][(RedisStep("execute_statement")
          /\ RedisStatementCmd(call[Main].arg) \notin {K_SET, K_DEL})
       => /\ redisDb' = redisDb
          /\ pc'[Main] = "idle"
                => /\ ~ret'.res.ok
                   /\ ret'.res.err.variant = "QueryError" \/ TimeoutElapsed
      ]_vars

\* the leading token of a statement: its characters from the first one that is not
\* a space up to the next space
RECURSIVE TokenFrom(_, _)
TokenFrom(s, i) ==
    IF i > Len(s) \/ s[i] = " " THEN <<>> ELSE <<s[i]>> \o TokenFrom(s, i + 1)

RECURSIVE SkipSpaces(_, _)
SkipSpaces(s, i) == IF i <= Len(s) /\ s[i] = " " THEN SkipSpaces(s, i + 1) ELSE i

LeadingToken(s) == TokenFrom(s, SkipSpaces(s, 1))

LeadingTokenIs(s, word) == to_lowercase(LeadingToken(s)) = to_lowercase(word)

Unsupported(r) == ~r.ok /\ r.err.variant = "QueryError" /\ r.err.msg[1] # DriverMsg[1]

\* C17: execute_query of the key-value adapter dispatches on the leading token of
\* the trimmed statement, compared without regard to case: KEYS, SCAN and SELECT
\* give the four columns key/value/type/ttl, GET gives one key/value row, every
\* other leading token (the empty statement too) gives the unsupported-command
\* QueryError; a dispatched command fails only by the driver or the timeout.
C17_QueryDispatch ==
    (Returned("execute_query") /\ ret.thread = Main /\ call[Main].kind = "Redis")
    => LET sql == call[Main].arg
           scan == \E w \in {K_KEYS, K_SCAN, K_SELECT} : LeadingTokenIs(sql, w)
           get == LeadingTokenIs(sql, K_GET)
       IN /\ scan => /\ ~Unsupported(ret.res)
                     /\ ret.res.ok => ret.res.val.columns = <<"key", "value", "type", "ttl">>
          /\ get => /\ ~Unsupported(ret.res)
                    /\ ret.res.ok => /\ ret.res.val.columns = <<"key", "value">>
                                     /\ Len(ret.res.val.rows) = 1
          /\ (~scan /\ ~get) => ~ret.res.ok
          /\ (~ret.res.ok /\ ~Unsupported(ret.res))
                => \/ ret.res.err = QueryError(DriverMsg)
                   \/ ret.res.err = ConnectionFailed(OperationTimedOutMsg)

C17_Witness ==
    /\ Returned("execute_query") /\ ret.thread = Main /\ call[Main].kind = "Redis"
    /\ call[Main].arg = <<" ","g","e","t"," "," ","k"," ">>
    /\ ret.res.ok
    /\ ret.res.val.columns = <<"key", "value">>

C17_WitnessUnsupported ==
    /\ Returned("execute_query") /\ ret.thread = Main /\ call[Main].kind = "Redis"
    /\ call[Main].arg = <<>>
    /\ Unsupported(ret.res)

\* a successful execute_query of the key-value adapter whose leading token is one of words
RedisQueryOk(words) ==
    /\ Returned("execute_query") /\ ret.thread = Main /\ call[Main].kind = "Redis"
    /\ \E w \in words : LeadingTokenIs(call[Main].arg, w)
    /\ ret.res.ok

\* C18: a pattern scan (KEYS, SCAN, SELECT) returns at most 100 rows however many
\* keys match, and its row_count is the number of rows it returns.
C18_ScanCappedAt100 ==
    RedisQueryOk({K_KEYS, K_SCAN, K_SELECT})
        => /\ Len(ret.res.val.rows) <= 100
           /\ ret.res.val.row_count = Len(ret.res.val.rows)

C18_Witness ==
    /\ RedisQueryOk({K_KEYS, K_SCAN, K_SELECT})
    /\ Len(ret.res.val.rows) = 100

\* C19: GET k returns one row [k, v] under the columns key, value with row_count
\* 1, where v is the string stored under k, and null when k does not exist.
C19_GetReturnsStoredValue ==
    RedisQueryOk({K_GET})
        => LET key == LeadingToken(SubSeq(call[Main].arg,
                                          SkipSpaces(call[Main].arg, 1) + 3,
                                          Len(call[Main].arg)))
           IN /\ ret.res.val.columns = <<"key", "value">>
              /\ ret.res.val.row_count = 1
              /\ Len(ret.res.val.rows) = 1
              /\ ret.res.val.rows[1][1] = JsonString(key)
              /\ RedisLookup(redisDb, key) = "string"
                    => ret.res.val.rows[1][2] = JsonString("value")
              /\ RedisLookup(redisDb, key) = "missing"
                    => ret.res.val.rows[1][2] = JsonNull

\* C22: an error the PostgreSQL driver reports reaches the caller, from connect
\* and from every capability operation, with the severity and message of a
\* database error and its detail and hint when it has them, and otherwise with
\* the kind of the error and every cause of its chain.
PgMessageCarries(m, piece) == \E i \in DOMAIN m : m[i] = piece

C22_PgErrorsExpanded ==
    (ret.thread = Main /\ ~ret.res.ok /\ call[Main].kind = "PostgreSQL"
       /\ call[Main].fault # NoFault)
      => LET e == call[Main].fault
             m == ret.res.err.msg
         IN IF e.severity # "none"
            THEN /\ PgMessageCarries(m, e.severity)
                 /\ PgMessageCarries(m, e.message)
                 /\ (e.detail # "none" => PgMessageCarries(m, e.detail))
                 /\ (e.hint # "none" => PgMessageCarries(m, e.hint))
            ELSE /\ PgMessageCarries(m, e.kind)
                 /\ \A i \in DOMAIN e.causes : PgMessageCarries(m, e.causes[i])

(***************************************************************************)
(* Properties of import_csv (SpecCsv).                                     *)
(***************************************************************************)
\* C23: the QueryResult that import_csv returns has row_count equal to the
\* number of its rows and every row as long as the list of columns.
C23_ImportCsvResultShape ==
    (Returned("import_csv") /\ ret.res.ok)
        => /\ ret.res.val.row_count = Len(ret.res.val.rows)
           /\ \A r \in DOMAIN ret.res.val.rows :
                 Len(ret.res.val.rows[r]) = Len(ret.res.val.columns)

(***************************************************************************)
(* Properties of auto-connect racing with connect_database (SpecAutoRace). *)
(***************************************************************************)
\* C27: the connects that auto_connect_project_connections issues never push an
\* adapter out of the registry: when a worker inserts, its identifier is not
\* registered.
C27_AutoConnectNeverReplaces ==
    [][\A w \in Workers :
          (pc[w] = "connect_insert" /\ pc'[w] # pc[w])
              => (~HashMapContains(connections, call[w].id) /\ displaced' = NoAdapter)
      ]_vars

(***************************************************************************)
(* Properties of the connection commands (SpecLifecycle).                  *)
(***************************************************************************)
\* C28: whenever no command is in flight, an identifier is registered if and
\* only if a stored connection with that identifier exists and has its
\* connected flag set.
C28_StoreAgreesWithRegistry ==
    (pc[Main] = "idle")
      => \A id \in RequestIds :
            HashMapContains(connections, id) <=> (id \in DOMAIN store /\ id \in connected)

(***************************************************************************)
(* Properties of the get_schema command (SpecSchemaCache).                 *)
(***************************************************************************)
\* the step is a return of get_schema that was not forced and found a readable
\* cached schema stored for its identifier
CacheHit ==
    /\ ret'.thread = Main /\ ret'.op = "get_schema"
    /\ ~call'[Main].force
    /\ settings[ret'.id].state = "stored"

\* C29 as stated: get_schema without force_refresh returns the cached schema
\* whenever a readable one is stored for the identifier.
C29_CachedSchemaAlwaysReturned ==
    [][CacheHit => ret'.res = Ok(settings[ret'.id].schema)]_vars

\* C29: get_schema without force_refresh that finds a readable cached schema
\* returns it, connected or not and whatever the database holds by now, unless
\* reading the settings table fails, which it reports as DatabaseError; either
\* way the cache keeps its value.  The cache is overwritten only by a forced
\* call or one that found no readable value, with the schema the registered
\* adapter has just reported, which is also what that call returns.  The
\* command never changes the registry or the database.
C29_CachedSchemaReturnedUnlessReadFails ==
    [][(ret'.thread = Main /\ ret'.op = "get_schema")
          => LET id == ret'.id
                 fresh == SqliteSchema(sqTables)
             IN /\ connections' = connections /\ sqTables' = sqTables
                /\ CacheHit => /\ ret'.res \in {Ok(settings[id].schema),
                                                 Err(DatabaseError(DriverMsg))}
                               /\ settings' = settings
                /\ (settings' # settings)
                      => /\ ~CacheHit
                         /\ HashMapContains(connections, id)
                         /\ settings' = [settings EXCEPT ![id] = CachedSchema(fresh)]
                /\ (ret'.res.ok /\ ~CacheHit)
                      => /\ HashMapContains(connections, id)
                         /\ ret'.res.val = fresh
                         /\ settings'[id] = CachedSchema(fresh)
      ]_vars

\* a cached schema that is no longer the database's is returned for an
\* identifier that has been disconnected
C29_Witness ==
    /\ Returned("get_schema") /\ ret.res.ok
    /\ ~call[Main].force
    /\ ~HashMapContains(connections, ret.id)
    /\ ret.res.val # SqliteSchema(sqTables)

(***************************************************************************)
(* Properties of the three locks together (SpecLocks).                     *)
(***************************************************************************)
LocksHeldBy(t) ==
    {l \in {"registry", "sqlite", "store"} :
        \/ l = "registry" /\ (rwWriter = t \/ t \in rwReaders)
        \/ l = "sqlite" /\ sqMutex = t
        \/ l = "store" /\ dbMutex = t}

\* no thread holds two locks, waits for a lock while it holds one, or is
\* outside every call with a lock held
NoLockHeldAcross ==
    \A t \in Callers :
       /\ Cardinality(LocksHeldBy(t)) <= 1
       /\ WaitingForLock(t) => (LocksHeldBy(t) = {})
       /\ (pc[t] = "idle") => (LocksHeldBy(t) = {})

\* C30: the registry lock, the SQLite mutex and the store mutex are free of
\* deadlock.  No thread ever holds two of them, and no thread waits for one
\* while it holds one (its own included: get_table_metadata and get_stats have
\* released the SQLite mutex when they lock it again); so, with locks that are
\* scheduled fairly, every thread blocked in write() or lock() gets its lock,
\* and every call that was started returns, leaving no lock held.
C30_LocksDeadlockFree ==
    /\ []NoLockHeldAcross
    /\ \A t \in Callers : WaitingForLock(t) ~> ~WaitingForLock(t)
    /\ \A t \in Callers : (pc[t] # "idle") ~> (pc[t] = "idle")

\* a caller of get_table_metadata or get_stats is blocked locking the SQLite
\* mutex a second time while another caller holds it
C30_Witness ==
    \E t, u \in Callers :
       /\ t # u
       /\ pc[t] \in {"sq_meta_relock", "sq_stats_relock"}
       /\ sqMutex = u

\* a caller of connect is blocked in write() while another caller holds the lock
C30_WitnessWriterWaits ==
    \E t, u \in Callers :
       /\ t # u
       /\ pc[t] = "connect_write"
       /\ (rwWriter = u \/ u \in rwReaders)

(***************************************************************************)
(* Properties of the registry when the lock is poisoned (SpecPoison).      *)
(***************************************************************************)
PoisonedError == Err(ConnectionFailed(PoisonedMsg))

\* C21: once the registry lock is poisoned, a connect that reaches the lock and
\* every get and disconnect return ConnectionFailed("Connection store lock
\* poisoned"), the registry is left as it is, and no thread panics in a
\* registry operation.
C21_PoisonIsConnectionFailed ==
    [][rwPoisoned =>
          /\ \A t \in Threads :
                /\ (pc[t] = "connect_write" /\ pc'[t] # pc[t])
                      => (ret'.thread = t /\ ret'.op = "connect"
                            /\ ret'.res = PoisonedError)
                /\ (ret'.thread = t /\ ret'.op \in {"get", "disconnect"})
                      => ret'.res = PoisonedError
                /\ (pc'[t] = "panicked") => (pc[t] = "panicked")
          /\ connections' = connections
      ]_vars

C21_Witness ==
    /\ rwPoisoned
    /\ Returned("connect")
    /\ ret.res = PoisonedError

(***************************************************************************)
(* Properties of connect_database (SpecCommands).                          *)
(***************************************************************************)
\* the alias set of the backend kinds, in lower case
Aliases == {[text |-> <<"p","o","s","t","g","r","e","s","q","l">>, kind |-> "PostgreSQL"],
            [text |-> <<"p","o","s","t","g","r","e","s">>, kind |-> "PostgreSQL"],
            [text |-> <<"p","g">>, kind |-> "PostgreSQL"],
            [text |-> <<"m","y","s","q","l">>, kind |-> "MySQL"],
            [text |-> <<"m","a","r","i","a","d","b">>, kind |-> "MySQL"],
            [text |-> <<"s","q","l","i","t","e">>, kind |-> "SQLite"],
            [text |-> <<"s","q","l","i","t","e","3">>, kind |-> "SQLite"],
            [text |-> <<"r","e","d","i","s">>, kind |-> "Redis"]}

SameLetter(a, b) ==
    a = b \/ \E i \in DOMAIN UpperChars : {a, b} = {UpperChars[i], LowerChars[i]}

EqualIgnoringCase(s, a) ==
    Len(s) = Len(a) /\ \A i \in DOMAIN s : SameLetter(s[i], a[i])

MatchingKinds(s) == {a.kind : a \in {b \in Aliases : EqualIgnoringCase(s, b.text)}}

\* C20: the kind of a stored connection is parsed from its text without regard
\* to case over the alias set postgresql/postgres/pg, mysql/mariadb,
\* sqlite/sqlite3, redis; a text matches at most one kind, every other text
\* parses to no kind; every registered adapter is of the kind its connection's
\* text names, and connect_database for a text that names no kind has
\* returned an error.
C20_KindParsing ==
    /\ \A id \in ConnIds :
          LET s == store[id].db_type
          IN /\ Cardinality(MatchingKinds(s)) <= 1
             /\ MatchingKinds(s) = IF from_str_loose(s) = "none"
                                   THEN {} ELSE {from_str_loose(s)}
    /\ \A e \in connections : MatchingKinds(store[e[1]].db_type) = {e[2].kind}
    /\ \A t \in Threads :
          (call[t].op = "connect_database")
              => MatchingKinds(store[call[t].id].db_type) = {call[t].kind}
    /\ \A id \in ConnIds :
          (Returned("connect_database") /\ ret.id = id
             /\ MatchingKinds(store[id].db_type) = {}) => ~ret.res.ok

\* a connection whose text is an alias in mixed case is registered and the
\* request for one whose text names no kind has just been rejected
C20_Witness ==
    \E id1, id2 \in ConnIds :
        /\ to_lowercase(store[id1].db_type) # store[id1].db_type
        /\ HashMapContains(connections, id1)
        /\ MatchingKinds(store[id2].db_type) = {}
        /\ Returned("connect_database") /\ ret.id = id2
        /\ ret.res.err = ConnectionFailed(UnsupportedMsg(store[id2].db_type))

(***************************************************************************)
(* Properties of the shared runtime (SpecRuntime).                         *)
(***************************************************************************)
\* C14: blocking calls made at the same time from several threads never deadlock
\* the runtime: no runtime worker ever blocks waiting, a blocked call holds only
\* its own calling thread, and every call ends (with a result, an error or a
\* timeout) however many other callers are blocked.
C14_NoRuntimeDeadlock ==
    /\ [](\A w \in RtWorkers : rtWorker[w].state \in {"parked", "driving"})
    /\ [](\A w \in RtWorkers : rtWorker[w].for \notin RtWorkers)
    /\ \A t \in Callers : (pc[t] = "rt_block_on") ~> (pc[t] = "idle")

C14_Witness ==
    /\ \A t \in Callers : pc[t] = "rt_block_on" /\ call[t].wake = "none"
    /\ \E w \in RtWorkers : rtWorker[w].state = "driving"

====
